---- MODULE Spec2Model ----
(***************************************************************************)
(* Tool-calling execution environment of Agent-R1                          *)
(* (agent_r1/tool/tool_env.py, agent_r1/tool/tools/python_tool.py).        *)
(*                                                                         *)
(* An episode (ToolEnv) is a record; the PythonTool instances live in a    *)
(* heap `globals` (one execution context per instance).  Texts are         *)
(* sequences of tokens, so that extract_tool_call has to find the first    *)
(* <tool_call>...</tool_call> region and decode its content.  Rewards are  *)
(* counted in thousandths (-0.1 is -100).  Observations are sequences of   *)
(* strings (the pieces of the formatted message or of the JSON result).    *)
(***************************************************************************)
EXTENDS Integers, Sequences, FiniteSets, TLC

VARIABLES
    envs,       \* the episodes created so far (ToolEnv objects), by creation order
    globals,    \* heap of PythonTool instances: globals[k] is self.globals of instance k
    call,       \* the last operation invoked and its inputs
    ret,        \* what the last step call returned (or the exception it raised)
    results,    \* what the last step_batch call returned
    trace,      \* the tool methods invoked by the last operation, in order
    ops,        \* number of operations performed so far
    sys_stdout, \* sys.stdout of the process: 0 is sys.__stdout__, k the StringIO of thread k
    threads     \* the threads running step concurrently, one per episode

vars == <<envs, globals, call, ret, results, trace, ops, sys_stdout, threads>>

---------------------------------------------------------------------------
(* Bounds of the model *)

MaxEnvs == 2
MaxOps == 3
MaxTurnsBound == 2
MaxClones == 2
MaxCloneOps == 6

---------------------------------------------------------------------------
(* Small helpers *)

Range(s) == {s[i] : i \in DOMAIN s}

Min(a, b) == IF a <= b THEN a ELSE b

EmptyArgs == [k \in {} |-> ""]

\* Python's None, as stored in _actions_valid / _actions_effective
None == [none |-> TRUE]

---------------------------------------------------------------------------
(* ToolEnv class attributes *)

INVALID_ACTION == [tool |-> "invalid", args |-> EmptyArgs]

PENALTY_FOR_INVALID == -100

PENALTY_FOR_INEFFECTIVE == -50

InvalidFormatMsg == <<"Invalid tool call format. Please use <tool_call>{\"name\": \"tool_name\", \"arguments\": {params_json}}</tool_call> format.">>

---------------------------------------------------------------------------
(* Texts: sequences of tokens *)

OpenTag == [t |-> "open"]

CloseTag == [t |-> "close"]

Ws == [t |-> "ws"]

Junk == [t |-> "text"]

\* a chunk of text that json.loads decodes to the object v
JsonObject(v) == [t |-> "json", kind |-> "object", v |-> v]

\* a chunk of text that json.loads decodes to a list with the given elements
JsonArray(v) == [t |-> "json", kind |-> "array", items |-> v]

\* a chunk of text that json.loads decodes to the string v
JsonString(v) == [t |-> "json", kind |-> "string", chars |-> v]

\* a chunk of text that json.loads decodes to a number
JsonNumber == [t |-> "json", kind |-> "number"]

\* the chunk `null`
JsonNull == [t |-> "json", kind |-> "null"]

\* a chunk of text nested too deeply for json.loads: RecursionError
JsonDeep == [t |-> "json", kind |-> "deep"]

ToolCall(v) == <<OpenTag, JsonObject(v), CloseTag>>

\* JSON values of "name" that decode to a list or an object: Python cannot hash them
UnhashableNames == {"[\"a\"]"}

hashable(name) == name \notin UnhashableNames

\* position of the first token equal to tok at or after position i, 0 when there is none
RECURSIVE find(_, _, _)
find(text, tok, i) ==
    IF i > Len(text) THEN 0
    ELSE IF text[i] = tok THEN i
    ELSE find(text, tok, i + 1)

\* str.strip(): leading and trailing whitespace removed
RECURSIVE strip(_)
strip(s) ==
    IF s = <<>> THEN s
    ELSE IF Head(s) = Ws THEN strip(Tail(s))
    ELSE IF s[Len(s)] = Ws THEN strip(SubSeq(s, 1, Len(s) - 1))
    ELSE s

\* the greedy pattern r'<tool_call>(.*)</tool_call>': up to the last closing tag
tool_call_match_greedy(text) ==
    LET i == find(text, OpenTag, 1)
        closing == {j \in DOMAIN text : j > i /\ text[j] = CloseTag}
    IN  IF i = 0 \/ closing = {} THEN <<>>
        ELSE <<SubSeq(text, i + 1, (CHOOSE j \in closing : \A k \in closing : k <= j) - 1)>>

\* re.search(r'<tool_call>(.*?)</tool_call>', text, re.DOTALL): group(1) of the
\* first match, wrapped in a one-element sequence; <<>> when nothing matches
tool_call_match(text) ==
    LET i == find(text, OpenTag, 1)
        j == IF i = 0 THEN 0 ELSE find(text, CloseTag, i + 1)
    IN  IF i = 0 \/ j = 0 THEN <<>> ELSE <<SubSeq(text, i + 1, j - 1)>>

\* the outcome of a piece of extract_tool_call: the action it returns, or
\* the exception it raises
Parsed(action) == [exc |-> "", action |-> action]

ParseFault(exc) == [exc |-> exc, action |-> INVALID_ACTION]

\* dict.get(key) without a default: None for a missing key
dict_get_none(d, key, default) == IF key \in DOMAIN d THEN d[key] ELSE None

\* dict.get(key, default)
dict_get(d, key, default) == IF key \in DOMAIN d THEN d[key] ELSE default

\* `"name" in tool_call_data` for a decoded list, string or object
contains_name(tool_call_data) ==
    CASE tool_call_data.kind = "object" -> "name" \in DOMAIN tool_call_data.v
      [] tool_call_data.kind = "array" -> "name" \in Range(tool_call_data.items)
      [] tool_call_data.kind = "string" -> tool_call_data.chars = "name"

\* the body of `try:` on group(1) of the match
try_extract(group) ==
    LET tool_call_json == strip(group)
    IN  \* json.loads: exactly one JSON document, else JSONDecodeError
        IF Len(tool_call_json) # 1 \/ tool_call_json[1].t # "json"
        THEN ParseFault("JSONDecodeError")
        ELSE LET tool_call_data == tool_call_json[1]
             IN  IF tool_call_data.kind = "deep" THEN ParseFault("RecursionError")
                 \* `in` on a number or on None: TypeError
                 ELSE IF tool_call_data.kind \in {"number", "null"} THEN ParseFault("TypeError")
                 ELSE IF ~contains_name(tool_call_data) THEN Parsed(INVALID_ACTION)
                 \* tool_call_data["name"] on a list or a string: TypeError
                 ELSE IF tool_call_data.kind # "object" THEN ParseFault("TypeError")
                 ELSE Parsed([tool |-> tool_call_data.v.name,
                              args |-> dict_get(tool_call_data.v, "arguments", EmptyArgs)])

\* a faulty handler: only `except json.JSONDecodeError`
caught_decode_errors_only(exc) == exc = "JSONDecodeError"

\* `except json.JSONDecodeError` and `except Exception`: every exception of
\* the body is an Exception
caught(exc) == exc \in {"JSONDecodeError", "TypeError", "RecursionError"}

\* extract_tool_call with the exception that leaves it, if any
\* a parser that gives up once the episode has taken a step
extract_outcome_after_steps(text) ==
    IF envs[1].steps_taken > 0 THEN Parsed(INVALID_ACTION)
    ELSE LET m == tool_call_match(text)
         IN  IF m = <<>> THEN Parsed(INVALID_ACTION) ELSE try_extract(m[1])

extract_outcome(text) ==
    LET m == tool_call_match(text)
    IN  IF m = <<>> THEN Parsed(INVALID_ACTION)
        ELSE LET b == try_extract(m[1])
             IN  IF b.exc # "" /\ caught(b.exc) THEN Parsed(INVALID_ACTION) ELSE b

extract_tool_call(text) == extract_outcome(text).action

---------------------------------------------------------------------------
(* Tools.  A tool object is a record: its class, its name and, for a       *)
(* PythonTool, the index of its instance in the heap `globals`.  The        *)
(* calculator is one stateless instance (inst 0).                           *)

PythonTool(k) == [cls |-> "PythonTool", name |-> "python", inst |-> k]

CalculatorTool == [cls |-> "CalculatorTool", name |-> "calculator", inst |-> 0]

\* A Tool subclass whose batch_execute returns one result too few
ShortBatchTool == [cls |-> "ShortBatchTool", name |-> "short", inst |-> 0]

\* A Tool subclass whose batch_execute returns one result too many
LongBatchTool == [cls |-> "LongBatchTool", name |-> "long", inst |-> 0]

\* A PythonTool subclass whose calculate_reward raises: execute is
\* PythonTool's, on the instance's own context
ScoreFaultTool(k) == [cls |-> "ScoreFaultTool", name |-> "python", inst |-> k]

\* self.globals of a newly constructed PythonTool: only the library modules,
\* which are not names the executed code of this model binds
InitGlobals == [n \in {} |-> 0]

\* "required" of the tool's parameter schema
required(tool) ==
    CASE tool.cls \in {"PythonTool", "ScoreFaultTool"} -> {"code"}
      [] tool.cls = "CalculatorTool" -> {"expression"}
      [] OTHER -> {}

\* Tool.validate_args: (is_valid, error_msg)
validate_args(tool, args) ==
    IF required(tool) \subseteq DOMAIN args
    THEN [is_valid |-> TRUE, error_msg |-> ""]
    ELSE [is_valid |-> FALSE, error_msg |-> "Missing required parameter"]

\* The statements the executed code of the model consists of
PyCodes == {"x = 42", "x = 100", "x = 200", "print(x)", "raise SystemExit", "", " "}

\* str.strip() on the code strings of the model
strip_code(code) == IF code = " " THEN "" ELSE code

\* str(value) + "\n", as print writes it
printed(v) ==
    CASE v = 42 -> "42\n"
      [] v = 100 -> "100\n"
      [] v = 200 -> "200\n"

\* the value a statement `x = <literal>` binds
assigned_value(code) ==
    CASE code = "x = 42" -> 42
      [] code = "x = 100" -> 100
      [] code = "x = 200" -> 200

\* sum(1 for _ in ast.walk(ast.parse(code)))
num_nodes(code) ==
    CASE code \in {"x = 42", "x = 100", "x = 200"} -> 5
      [] code = "print(x)" -> 7
      [] code = "raise SystemExit" -> 4
      [] OTHER -> 1

\* json.dumps of a result dict: the sequence key, value, key, value, ...
\* "key in json.loads(result)"
has_key(result, key) ==
    \E i \in DOMAIN result : i % 2 = 1 /\ result[i] = key

\* an execute that runs the code on a new context at every call
python_execute_fresh(g, args) ==
    LET code == strip_code(IF "code" \in DOMAIN args THEN args.code ELSE "")
    IN  IF code = ""
        THEN [kind |-> "return", exc |-> "", globals |-> InitGlobals,
              result |-> <<"error", "No code provided">>]
        ELSE IF code = "raise SystemExit"
        THEN [kind |-> "raise", exc |-> "SystemExit", globals |-> InitGlobals,
              result |-> <<>>]
        ELSE IF code = "print(x)"
        THEN [kind |-> "return", exc |-> "", globals |-> InitGlobals,
              result |-> <<"error", "name 'x' is not defined",
                           "traceback", "NameError", "stdout", "", "stderr", "">>]
        ELSE [kind |-> "return", exc |-> "",
              globals |-> [n \in {"x"} |-> assigned_value(code)],
              result |-> <<"stdout", "", "stderr", "">>]

\* PythonTool.execute on the context g (self.globals).  Gives the outcome
\* (kind "return" with the result, or kind "raise" with the exception that
\* leaves execute) and the context afterwards.
python_execute(g, args) ==
    LET code == strip_code(IF "code" \in DOMAIN args THEN args.code ELSE "")
    IN  IF code = ""
        THEN [kind |-> "return", exc |-> "", globals |-> g,
              result |-> <<"error", "No code provided">>]
        ELSE IF code = "raise SystemExit"
        THEN \* SystemExit is no Exception: `except Exception` lets it pass
             [kind |-> "raise", exc |-> "SystemExit", globals |-> g, result |-> <<>>]
        ELSE IF code = "print(x)"
        THEN IF "x" \in DOMAIN g
             THEN [kind |-> "return", exc |-> "", globals |-> g,
                   result |-> <<"stdout", printed(g.x), "stderr", "">>]
             ELSE [kind |-> "return", exc |-> "", globals |-> g,
                   result |-> <<"error", "name 'x' is not defined",
                                "traceback", "NameError", "stdout", "", "stderr", "">>]
        ELSE [kind |-> "return", exc |-> "",
              globals |-> [n \in DOMAIN g \cup {"x"} |->
                             IF n = "x" THEN assigned_value(code) ELSE g[n]],
              result |-> <<"stdout", "", "stderr", "">>]

\* a result text json.loads rejects, and one it decodes to a number: texts
\* that are no key, value sequence
Undecodable == <<"not json">>

ScalarJson == <<"5">>

\* the number of nodes of ast.parse(code), 0 when ast.parse raises
parse_nodes(code) == IF code = "x =" THEN 0 ELSE num_nodes(code)

\* a reward without the cap
reward_for_uncapped(result, n) ==
    IF Len(result) = 1 THEN 0
    ELSE IF has_key(result, "error") THEN 50
    ELSE 300 + n

\* a faulty reward: an error result is scored as an ineffective action
reward_for_error_penalised(result, n) ==
    IF result = Undecodable THEN 0
    ELSE IF Len(result) = 1 THEN 0
    ELSE IF has_key(result, "error") THEN PENALTY_FOR_INEFFECTIVE
    ELSE IF n = 0 THEN Min(400, 300)
    ELSE Min(400, 300 + Min(100, n))

\* PythonTool.calculate_reward, in thousandths, for the result and the
\* number of nodes of the code (0: the code does not parse)
reward_for(result, n) ==
    IF result = Undecodable THEN 0          \* json.loads raises: bare except
    ELSE IF Len(result) = 1 THEN 0          \* `"error" in 5` raises: bare except
    ELSE IF has_key(result, "error") THEN 50
    ELSE IF n = 0 THEN Min(400, 300)        \* ast.parse raises: `pass`
    ELSE Min(400, 300 + Min(100, n))

\* PythonTool.calculate_reward
python_calculate_reward(args, result) ==
    reward_for(result, parse_nodes(IF "code" \in DOMAIN args THEN args.code ELSE ""))

\* The calculator is an opaque tool: its execution returns a result or raises
calculator_execute(args) ==
    IF args.expression = "boom"
    THEN [kind |-> "raise", exc |-> "Exception", result |-> <<"division by zero">>]
    ELSE [kind |-> "return", exc |-> "", result |-> <<"4">>]

calculator_calculate_reward(args, result) == 0

\* execute of the two tools with a broken batch_execute: a fixed result
plain_execute(args) == [kind |-> "return", exc |-> "", result |-> <<"ok">>]

\* Tool.calculate_reward, the default of the base class
default_calculate_reward(args, result) == 0

\* tool.execute(args) against the heap h of PythonTool instances
execute(tool, h, args) ==
    IF tool.cls \in {"PythonTool", "ScoreFaultTool"}
    THEN LET x == python_execute(h[tool.inst], args)
         IN  [kind |-> x.kind, exc |-> x.exc, result |-> x.result,
              globals |-> [h EXCEPT ![tool.inst] = x.globals]]
    ELSE LET x == IF tool.cls = "CalculatorTool" THEN calculator_execute(args)
                  ELSE plain_execute(args)
         IN  [kind |-> x.kind, exc |-> x.exc, result |-> x.result, globals |-> h]

\* tool.calculate_reward(args, result) raises (an Exception whose text is
\* RewardFault) instead of returning a number
reward_raises(tool, args, result) == tool.cls = "ScoreFaultTool"

RewardFault == <<"bad reward">>

calculate_reward(tool, args, result) ==
    CASE tool.cls = "PythonTool" -> python_calculate_reward(args, result)
      [] tool.cls = "CalculatorTool" -> calculator_calculate_reward(args, result)
      [] OTHER -> default_calculate_reward(args, result)

---------------------------------------------------------------------------
(* ToolEnv *)

\* self.tool_map = {tool.name: tool for tool in self.tools}
tool_map(env) ==
    [n \in {t.name : t \in Range(env.tools)} |->
        LET last == CHOOSE i \in DOMAIN env.tools :
                        /\ env.tools[i].name = n
                        /\ \A j \in DOMAIN env.tools : env.tools[j].name = n => j <= i
        IN  env.tools[last]]

\* ToolEnv.__init__ with reset_tracking_variables.  `lists` is the identity
\* of the list objects the episode holds (tool_history, rewards, _actions,
\* _actions_valid, _actions_effective): two episodes with the same identity
\* hold the same objects, and an append through one shows in the other.
ToolEnv(tools, max_turns) ==
    [tools |-> tools,
     max_turns |-> max_turns,
     lists |-> 1,
     rewards |-> <<>>,
     tool_history |-> <<>>,
     steps_taken |-> 0,
     actions |-> <<>>,
     actions_valid |-> <<>>,
     actions_effective |-> <<>>]

\* a faulty _update_tracking_variables: the two flags are taken for each other
update_tracking_variables_swapped(env, response, action, action_is_valid, action_is_effective, reward) ==
    [env EXCEPT
        !.actions = Append(@, response),
        !.actions_valid = Append(@, IF action_is_effective THEN action ELSE None),
        !.actions_effective = Append(@, IF action_is_valid THEN action ELSE None),
        !.rewards = Append(@, reward)]

\* a faulty bookkeeping: the action is entered in _actions_effective whether
\* or not it was effective
update_tracking_variables_all_effective(env, response, action, action_is_valid, action_is_effective, reward) ==
    [env EXCEPT
        !.actions = Append(@, response),
        !.actions_valid = Append(@, IF action_is_valid THEN action ELSE None),
        !.actions_effective = Append(@, action),
        !.rewards = Append(@, reward)]

\* ToolEnv._update_tracking_variables
update_tracking_variables(env, response, action, action_is_valid, action_is_effective, reward) ==
    [env EXCEPT
        !.actions = Append(@, response),
        !.actions_valid = Append(@, IF action_is_valid THEN action ELSE None),
        !.actions_effective = Append(@, IF action_is_effective THEN action ELSE None),
        !.rewards = Append(@, reward)]

\* a (observation, reward, done, info) tuple that an operation returns
Returned(observation, reward, done, valid, effective) ==
    [exc |-> "",
     observation |-> observation,
     reward |-> reward,
     done |-> done,
     info |-> [action_is_valid |-> valid, action_is_effective |-> effective]]

\* an exception that leaves the operation instead of a returned tuple
Raised(exc) ==
    [exc |-> exc,
     observation |-> <<>>,
     reward |-> 0,
     done |-> FALSE,
     info |-> [action_is_valid |-> FALSE, action_is_effective |-> FALSE]]

NoReturn == Raised("none")

\* one entry of `trace`
Invoked(method, tool, args) ==
    [method |-> method, tool |-> tool.name, inst |-> tool.inst, args |-> <<args>>]

\* what step hands back to the model: the episode, the heap, the returned
\* tuple (or raised exception) and the tool methods it invoked
Outcome(env, h, r, tr) == [env |-> env, globals |-> h, ret |-> r, trace |-> tr]

\* a faulty turn check: `==` for `>=`
max_turns_hit(env) == env.steps_taken = env.max_turns

\* a faulty turn check: `>` for `>=`
max_turns_exceeded(env) == env.steps_taken > env.max_turns

\* `done = env.steps_taken >= env.max_turns`
max_turns_reached(env) == env.steps_taken >= env.max_turns

\* a faulty Invalid branch: it ends the episode at the turn limit
step_invalid_checks_turns(env, h, action_text, action) ==
    Outcome(update_tracking_variables(env, action_text, action, FALSE, FALSE,
                                      PENALTY_FOR_INVALID),
            h,
            Returned(InvalidFormatMsg, PENALTY_FOR_INVALID, env.steps_taken >= env.max_turns,
                     FALSE, FALSE),
            <<>>)

\* a faulty Invalid branch: the penalty of a semantic error
step_invalid_wrong_penalty(env, h, action_text, action) ==
    Outcome(update_tracking_variables(env, action_text, action, FALSE, FALSE,
                                      PENALTY_FOR_INEFFECTIVE),
            h,
            Returned(InvalidFormatMsg, PENALTY_FOR_INEFFECTIVE, FALSE, FALSE, FALSE),
            <<>>)

\* step, the branch `if action == env.INVALID_ACTION`
step_invalid(env, h, action_text, action) ==
    Outcome(update_tracking_variables(env, action_text, action, FALSE, FALSE,
                                      PENALTY_FOR_INVALID),
            h,
            Returned(InvalidFormatMsg, PENALTY_FOR_INVALID, FALSE, FALSE, FALSE),
            <<>>)

\* step, the branch `if tool_name not in env.tool_map`
step_unknown_tool(env, h, action_text, action) ==
    Outcome(update_tracking_variables(env, action_text, action, TRUE, FALSE,
                                      PENALTY_FOR_INEFFECTIVE),
            h,
            Returned(<<"Unknown tool: ", action.tool>>, PENALTY_FOR_INEFFECTIVE,
                     FALSE, TRUE, FALSE),
            <<>>)

\* a faulty invalid-arguments branch: scored as a syntax error
step_invalid_args_as_invalid(env, h, action_text, action, tool, error_msg) ==
    Outcome(update_tracking_variables(env, action_text, action, FALSE, FALSE,
                                      PENALTY_FOR_INVALID),
            h,
            Returned(<<"Invalid arguments for tool '", action.tool, "': ", error_msg>>,
                     PENALTY_FOR_INVALID, FALSE, FALSE, FALSE),
            <<Invoked("validate_args", tool, action.args)>>)

\* step, the branch `if not is_valid`
step_invalid_args(env, h, action_text, action, tool, error_msg) ==
    Outcome(update_tracking_variables(env, action_text, action, TRUE, FALSE,
                                      PENALTY_FOR_INEFFECTIVE),
            h,
            Returned(<<"Invalid arguments for tool '", action.tool, "': ", error_msg>>,
                     PENALTY_FOR_INEFFECTIVE, FALSE, TRUE, FALSE),
            <<Invoked("validate_args", tool, action.args)>>)

\* a faulty success branch: the call is not recorded in tool_history
step_success_no_history(env, h, action_text, action, tool, result) ==
    LET reward == calculate_reward(tool, action.args, result)
        done == env.steps_taken >= env.max_turns
    IN  Outcome(update_tracking_variables(env, action_text, action, TRUE, TRUE, reward),
                h,
                Returned(result, reward, done, TRUE, TRUE),
                <<Invoked("validate_args", tool, action.args),
                  Invoked("execute", tool, action.args),
                  Invoked("calculate_reward", tool, action.args)>>)

\* a faulty success branch: the record is put in front of tool_history
step_success_prepends(env, h, action_text, action, tool, result) ==
    LET reward == calculate_reward(tool, action.args, result)
        env1 == [env EXCEPT !.tool_history =
                    <<[tool |-> action.tool, args |-> action.args,
                       result |-> result]>> \o @]
        done == max_turns_reached(env1)
    IN  Outcome(update_tracking_variables(env1, action_text, action, TRUE, TRUE, reward),
                h,
                Returned(result, reward, done, TRUE, TRUE),
                <<Invoked("validate_args", tool, action.args),
                  Invoked("execute", tool, action.args),
                  Invoked("calculate_reward", tool, action.args)>>)

\* step, the body of `try:` when execute and calculate_reward return
step_success(env, h, action_text, action, tool, result) ==
    LET reward == calculate_reward(tool, action.args, result)
        env1 == [env EXCEPT !.tool_history =
                    Append(@, [tool |-> action.tool, args |-> action.args,
                               result |-> result])]
        done == max_turns_reached(env1)
    IN  Outcome(update_tracking_variables(env1, action_text, action, TRUE, TRUE, reward),
                h,
                Returned(result, reward, done, TRUE, TRUE),
                <<Invoked("validate_args", tool, action.args),
                  Invoked("execute", tool, action.args),
                  Invoked("calculate_reward", tool, action.args)>>)

\* a faulty except branch: the failed call is recorded in tool_history
step_fault_records_history(env, h, action_text, action, tool, e) ==
    Outcome(update_tracking_variables(
                [env EXCEPT !.tool_history =
                    Append(@, [tool |-> action.tool, args |-> action.args, result |-> e])],
                action_text, action, TRUE, FALSE, PENALTY_FOR_INEFFECTIVE),
            h,
            Returned(<<"Error executing tool '", action.tool, "': ">> \o e,
                     PENALTY_FOR_INEFFECTIVE, FALSE, TRUE, FALSE),
            <<Invoked("validate_args", tool, action.args),
              Invoked("execute", tool, action.args)>>)

\* step, the branch `except Exception as e`
step_fault(env, h, action_text, action, tool, e) ==
    Outcome(update_tracking_variables(env, action_text, action, TRUE, FALSE,
                                      PENALTY_FOR_INEFFECTIVE),
            h,
            Returned(<<"Error executing tool '", action.tool, "': ">> \o e,
                     PENALTY_FOR_INEFFECTIVE, FALSE, TRUE, FALSE),
            <<Invoked("validate_args", tool, action.args),
              Invoked("execute", tool, action.args)>>)

\* a faulty handling of a raising calculate_reward: the call is recorded as
\* a success with reward 0
step_reward_fault_as_success(env, h, action_text, action, tool, result) ==
    LET env1 == [env EXCEPT !.tool_history =
                    Append(@, [tool |-> action.tool, args |-> action.args,
                               result |-> result])]
    IN  Outcome(update_tracking_variables(env1, action_text, action, TRUE, TRUE, 0),
                h,
                Returned(result, 0, max_turns_reached(env1), TRUE, TRUE),
                <<Invoked("validate_args", tool, action.args),
                  Invoked("execute", tool, action.args),
                  Invoked("calculate_reward", tool, action.args)>>)

\* step, the branch `except Exception as e` entered from
\* `reward = tool.calculate_reward(...)`: execute has returned `result` and
\* left the heap h behind; nothing of the try body after it has run
step_reward_fault(env, h, action_text, action, tool, result) ==
    Outcome(update_tracking_variables(env, action_text, action, TRUE, FALSE,
                                      PENALTY_FOR_INEFFECTIVE),
            h,
            Returned(<<"Error executing tool '", action.tool, "': ">> \o RewardFault,
                     PENALTY_FOR_INEFFECTIVE, FALSE, TRUE, FALSE),
            <<Invoked("validate_args", tool, action.args),
              Invoked("execute", tool, action.args),
              Invoked("calculate_reward", tool, action.args)>>)

\* step(env, action_text) on the heap h
step(env, h, action_text) ==
    LET env1 == [env EXCEPT !.steps_taken = @ + 1]
        action == extract_tool_call(action_text)
    IN  IF action = INVALID_ACTION THEN step_invalid(env1, h, action_text, action)
        ELSE IF ~hashable(action.tool)
        THEN \* `tool_name not in env.tool_map` hashes the name: TypeError
             Outcome(env1, h, Raised("TypeError"), <<>>)
        ELSE IF action.tool \notin DOMAIN tool_map(env1)
        THEN step_unknown_tool(env1, h, action_text, action)
        ELSE LET tool == tool_map(env1)[action.tool]
                 v == validate_args(tool, action.args)
             IN  IF ~v.is_valid
                 THEN step_invalid_args(env1, h, action_text, action, tool, v.error_msg)
                 ELSE LET x == execute(tool, h, action.args)
                      IN  IF x.kind = "return" /\ reward_raises(tool, action.args, x.result)
                          THEN step_reward_fault(env1, x.globals, action_text, action,
                                                 tool, x.result)
                          ELSE IF x.kind = "return"
                          THEN step_success(env1, x.globals, action_text, action, tool,
                                            x.result)
                          ELSE IF x.exc = "Exception"
                          THEN step_fault(env1, x.globals, action_text, action, tool,
                                          x.result)
                          ELSE \* not an Exception: no handler in step
                               Outcome(env1, x.globals, Raised(x.exc),
                                       <<Invoked("validate_args", tool, action.args),
                                         Invoked("execute", tool, action.args)>>)

\* the episodes after the transition on episode i left it as env: the lists
\* are objects, so every episode holding the same list objects sees them too
put(es, i, env) ==
    [j \in DOMAIN es |->
        IF j = i THEN env
        ELSE IF es[j].lists = env.lists
        THEN [es[j] EXCEPT !.tool_history = env.tool_history,
                           !.rewards = env.rewards,
                           !.actions = env.actions,
                           !.actions_valid = env.actions_valid,
                           !.actions_effective = env.actions_effective]
        ELSE es[j]]

\* a faulty copy loop: a new instance for every tool, the stateless too
copy_tool_all_fresh(tool, k) == [tool EXCEPT !.inst = k]

\* a faulty copy loop: every tool object is reused, the PythonTool too
copy_tool_shared(tool, k) == tool

\* ToolEnv.copy, the loop over self.tools: a fresh instance for a PythonTool
\* (its index in the heap is k), the same object for any other tool
copy_tool(tool, k) ==
    IF tool.cls = "PythonTool" THEN PythonTool(k) ELSE tool

\* a faulty copy of the lists: the same objects are handed to the new episode
same_objects(lists, k) == lists

\* deepcopy of the episode's lists: new objects (number k), equal in value
deepcopy(lists, k) == k

\* ToolEnv.copy: the new episode; k is the number of the objects created (the
\* PythonTool instance in the heap, the copied lists)
copy(env, k) ==
    [ToolEnv([i \in DOMAIN env.tools |-> copy_tool(env.tools[i], k)], env.max_turns)
        EXCEPT !.lists = deepcopy(env.lists, k),
               !.tool_history = env.tool_history,
               !.rewards = env.rewards,
               !.steps_taken = env.steps_taken,
               !.actions = env.actions,
               !.actions_valid = env.actions_valid,
               !.actions_effective = env.actions_effective]

---------------------------------------------------------------------------
(* step_batch *)

\* Tool.batch_execute: the calls of the list executed in order on this one
\* tool object; an exception of a call leaves batch_execute
RECURSIVE batch_execute(_, _, _)
batch_execute(tool, h, args_list) ==
    IF args_list = <<>> THEN [exc |-> "", results |-> <<>>, globals |-> h]
    ELSE LET x == execute(tool, h, Head(args_list))
         IN  IF x.kind # "return"
             THEN [exc |-> x.exc, results |-> <<>>, globals |-> x.globals]
             ELSE LET rest == batch_execute(tool, x.globals, Tail(args_list))
                  IN  [exc |-> rest.exc,
                       results |-> <<x.result>> \o rest.results,
                       globals |-> rest.globals]

\* batch_execute of ShortBatchTool: the last result is missing
short_batch_execute(tool, h, args_list) ==
    LET b == batch_execute(tool, h, args_list)
    IN  [b EXCEPT !.results = SubSeq(@, 1, Len(@) - 1)]

\* batch_execute of LongBatchTool: one result more than arguments
long_batch_execute(tool, h, args_list) ==
    LET b == batch_execute(tool, h, args_list)
    IN  [b EXCEPT !.results = Append(@, <<"ok">>)]

\* tool.batch_execute(args_list), by the class of the tool
tool_batch_execute(tool, h, args_list) ==
    CASE tool.cls = "ShortBatchTool" -> short_batch_execute(tool, h, args_list)
      [] tool.cls = "LongBatchTool" -> long_batch_execute(tool, h, args_list)
      [] OTHER -> batch_execute(tool, h, args_list)

\* step_batch, first pass, `if action == env.INVALID_ACTION`
batch_invalid(env, action_text, action) ==
    [env |-> update_tracking_variables([env EXCEPT !.steps_taken = @ + 1],
                 action_text, action, FALSE, FALSE, PENALTY_FOR_INVALID),
     result |-> Returned(InvalidFormatMsg, PENALTY_FOR_INVALID, FALSE, FALSE, FALSE)]

\* a faulty unknown-tool branch of the first pass: the attempt is not counted
batch_unknown_tool_uncounted(env, action_text, action) ==
    [env |-> update_tracking_variables(env, action_text, action, TRUE, FALSE,
                                       PENALTY_FOR_INEFFECTIVE),
     result |-> Returned(<<"Unknown tool: ", action.tool>>, PENALTY_FOR_INEFFECTIVE,
                         FALSE, TRUE, FALSE)]

\* step_batch, first pass, `if tool_name not in env.tool_map`
batch_unknown_tool(env, action_text, action) ==
    [env |-> update_tracking_variables([env EXCEPT !.steps_taken = @ + 1],
                 action_text, action, TRUE, FALSE, PENALTY_FOR_INEFFECTIVE),
     result |-> Returned(<<"Unknown tool: ", action.tool>>, PENALTY_FOR_INEFFECTIVE,
                         FALSE, TRUE, FALSE)]

\* step_batch, first pass, `if not is_valid`
batch_invalid_args(env, action_text, action, error_msg) ==
    [env |-> update_tracking_variables([env EXCEPT !.steps_taken = @ + 1],
                 action_text, action, TRUE, FALSE, PENALTY_FOR_INEFFECTIVE),
     result |-> Returned(<<"Invalid arguments for tool '", action.tool, "': ", error_msg>>,
                         PENALTY_FOR_INEFFECTIVE, FALSE, TRUE, FALSE)]

\* the state of step_batch: the episodes, the heap, the result list, the tool
\* names of tool_groups in insertion order, tool_indices, the exception
\* raised (if any) and the tool methods invoked
BatchState(es, h, n) ==
    [envs |-> es,
     globals |-> h,
     results |-> [i \in 1..n |-> None],
     names |-> <<>>,
     tool_indices |-> [name \in {} |-> <<>>],
     exc |-> "",
     trace |-> <<>>]

\* a faulty grouping: the new index replaces the group instead of joining it
group_append_replacing(st, tool_name, i) ==
    IF tool_name \in DOMAIN st.tool_indices
    THEN [st EXCEPT !.tool_indices[tool_name] = <<i>>]
    ELSE [st EXCEPT !.names = Append(@, tool_name),
                    !.tool_indices = [name \in DOMAIN @ \cup {tool_name} |->
                                        IF name = tool_name THEN <<i>> ELSE @[name]]]

\* tool_indices[tool_name].append(i), the list created on first use
group_append(st, tool_name, i) ==
    IF tool_name \in DOMAIN st.tool_indices
    THEN [st EXCEPT !.tool_indices[tool_name] = Append(@, i)]
    ELSE [st EXCEPT !.names = Append(@, tool_name),
                    !.tool_indices = [name \in DOMAIN @ \cup {tool_name} |->
                                        IF name = tool_name THEN <<i>> ELSE @[name]]]

\* step_batch, first pass, from index i on
RECURSIVE first_pass(_, _, _)
first_pass(st, action_texts, i) ==
    IF i > Min(Len(st.envs), Len(action_texts)) \/ st.exc # "" THEN st
    ELSE LET env == st.envs[i]
             action_text == action_texts[i]
             action == extract_tool_call(action_text)
         IN  IF action = INVALID_ACTION
             THEN LET r == batch_invalid(env, action_text, action)
                  IN  first_pass([st EXCEPT !.envs = put(@, i, r.env), !.results[i] = r.result],
                                 action_texts, i + 1)
             ELSE IF ~hashable(action.tool)
             THEN [st EXCEPT !.exc = "TypeError"]
             ELSE IF action.tool \notin DOMAIN tool_map(env)
             THEN LET r == batch_unknown_tool(env, action_text, action)
                  IN  first_pass([st EXCEPT !.envs = put(@, i, r.env), !.results[i] = r.result],
                                 action_texts, i + 1)
             ELSE LET tool == tool_map(env)[action.tool]
                      v == validate_args(tool, action.args)
                      tr == Append(st.trace, Invoked("validate_args", tool, action.args))
                  IN  IF ~v.is_valid
                      THEN LET r == batch_invalid_args(env, action_text, action, v.error_msg)
                           IN  first_pass([st EXCEPT !.envs = put(@, i, r.env),
                                                     !.results[i] = r.result,
                                                     !.trace = tr],
                                          action_texts, i + 1)
                      ELSE first_pass(group_append([st EXCEPT !.trace = tr], action.tool, i),
                                      action_texts, i + 1)

\* a faulty loop body: done is computed before the episode's own increment
batch_process_result_done_early(env, tool, action_text, action, result) ==
    LET env1 == [env EXCEPT !.steps_taken = @ + 1]
        reward == calculate_reward(tool, action.args, result)
        env2 == [env1 EXCEPT !.tool_history =
                    Append(@, [tool |-> action.tool, args |-> action.args,
                               result |-> result])]
        done == max_turns_reached(env)
    IN  [env |-> update_tracking_variables(env2, action_text, action, TRUE, TRUE, reward),
         result |-> Returned(result, reward, done, TRUE, TRUE)]

\* step_batch, second pass, the body of `for idx, env, result, args in zip(...)`
batch_process_result(env, tool, action_text, action, result) ==
    LET env1 == [env EXCEPT !.steps_taken = @ + 1]
        reward == calculate_reward(tool, action.args, result)
        env2 == [env1 EXCEPT !.tool_history =
                    Append(@, [tool |-> action.tool, args |-> action.args,
                               result |-> result])]
        done == max_turns_reached(env2)
    IN  [env |-> update_tracking_variables(env2, action_text, action, TRUE, TRUE, reward),
         result |-> Returned(result, reward, done, TRUE, TRUE)]

\* the zip loop over one group, from position k of the group on
RECURSIVE process_group(_, _, _, _, _, _)
process_group(st, action_texts, tool, indices, batch_results, k) ==
    IF k > Min(Len(indices), Len(batch_results)) THEN st
    ELSE LET idx == indices[k]
             action == extract_tool_call(action_texts[idx])
             r == batch_process_result(st.envs[idx], tool, action_texts[idx], action,
                                       batch_results[k])
         IN  IF reward_raises(tool, action.args, batch_results[k])
             THEN \* calculate_reward raises after `env.steps_taken += 1`: no
                  \* try in step_batch, the exception leaves it
                  [st EXCEPT !.envs = put(@, idx, [st.envs[idx] EXCEPT
                                                      !.steps_taken = @ + 1]),
                             !.exc = "ValueError",
                             !.trace = Append(@, Invoked("calculate_reward", tool,
                                                         action.args))]
             ELSE
             process_group([st EXCEPT !.envs = put(@, idx, r.env),
                                      !.results[idx] = r.result,
                                      !.trace = Append(@, Invoked("calculate_reward", tool,
                                                                  action.args))],
                           action_texts, tool, indices, batch_results, k + 1)

\* a faulty handling of a raising batch_execute: every episode of the group
\* is given the penalty of a runtime fault and step_batch goes on
batch_fault_scored(st, tool_name, exc) ==
    LET indices == st.tool_indices[tool_name]
    IN  [st EXCEPT
            !.envs = [i \in DOMAIN @ |->
                        IF i \in Range(indices)
                        THEN update_tracking_variables(
                                 [@[i] EXCEPT !.steps_taken = @ + 1],
                                 <<>>, None, TRUE, FALSE, PENALTY_FOR_INEFFECTIVE)
                        ELSE @[i]],
            !.results = [i \in DOMAIN @ |->
                           IF i \in Range(indices)
                           THEN Returned(<<"Error executing tool '", tool_name, "': ">>,
                                         PENALTY_FOR_INEFFECTIVE, FALSE, TRUE, FALSE)
                           ELSE @[i]]]

\* step_batch, `batch_results = tool.batch_execute(args_list)` raising: there
\* is no try around it, the exception leaves step_batch
batch_fault(st, tool_name, exc) == [st EXCEPT !.exc = exc]

\* the tool object step_batch executes a group on:
\* `tool = envs_list[0].tool_map[tool_name]`
group_tool(st, tool_name) ==
    tool_map(st.envs[st.tool_indices[tool_name][1]])[tool_name]

\* step_batch, second pass, from group g (in insertion order) on
RECURSIVE second_pass(_, _, _)
second_pass(st, action_texts, g) ==
    IF g > Len(st.names) \/ st.exc # "" THEN st
    ELSE LET tool_name == st.names[g]
             indices == st.tool_indices[tool_name]
             args_list == [k \in DOMAIN indices |->
                             extract_tool_call(action_texts[indices[k]]).args]
             tool == group_tool(st, tool_name)
             b == tool_batch_execute(tool, st.globals, args_list)
             st1 == [st EXCEPT !.globals = b.globals,
                               !.trace = Append(@, [method |-> "batch_execute",
                                                    tool |-> tool.name,
                                                    inst |-> tool.inst,
                                                    args |-> args_list])]
         IN  IF b.exc # "" THEN batch_fault(st1, tool_name, b.exc)
             ELSE second_pass(process_group(st1, action_texts, tool, indices, b.results, 1),
                              action_texts, g + 1)

\* a faulty entry check: any two lists are accepted
lengths_unchecked(es, action_texts) == TRUE

\* `assert len(envs) == len(action_texts)`
lengths_match(es, action_texts) == Len(es) = Len(action_texts)

\* step_batch(envs, action_texts) on the heap h
step_batch(es, h, action_texts) ==
    IF ~lengths_match(es, action_texts)
    THEN [BatchState(es, h, Len(es)) EXCEPT !.exc = "AssertionError"]
    ELSE second_pass(first_pass(BatchState(es, h, Len(es)), action_texts, 1),
                     action_texts, 1)

---------------------------------------------------------------------------
(* The inputs of the model *)

\* '<tool_call>{"name": name, "arguments": args}</tool_call>'
CallText(name, args) == ToolCall([name |-> name, arguments |-> args])

\* 'no tool call at all'
PlainText == <<Junk>>

Texts ==
    { PlainText,
      CallText("foo", EmptyArgs),
      CallText("[\"a\"]", EmptyArgs),
      CallText("calculator", [expression |-> "2+2"]),
      CallText("calculator", EmptyArgs),
      CallText("calculator", [expression |-> "boom"]),
      CallText("python", [code |-> "x = 42"]),
      CallText("python", [code |-> "print(x)"]),
      CallText("python", [code |-> "raise SystemExit"]) }

\* the tool lists an episode is constructed with
ToolLists == { <<PythonTool(1), CalculatorTool>> }

\* the texts of one round given to step_batch
BatchTexts ==
    { PlainText,
      CallText("foo", EmptyArgs),
      CallText("calculator", [expression |-> "2+2"]),
      CallText("calculator", EmptyArgs),
      CallText("python", [code |-> "x = 42"]) }

---------------------------------------------------------------------------
(* The state machine *)

\* one episode, just constructed; its PythonTool is instance 1 of the heap
Constructed(lists, turns) ==
    /\ envs \in {<<ToolEnv(tools, max_turns)>> : tools \in lists, max_turns \in turns}
    /\ globals = <<InitGlobals>>
    /\ call = [op |-> "init", envs |-> <<>>, texts |-> <<>>]
    /\ ret = NoReturn
    /\ results = <<>>
    /\ trace = <<>>
    /\ ops = 0
    /\ sys_stdout = 0
    /\ threads = <<>>

Init == Constructed(ToolLists, 1..MaxTurnsBound)

\* step(envs[e], action_text)
StepOp(e, action_text) ==
    /\ \E o \in {step(envs[e], globals, action_text)} :
           /\ envs' = put(envs, e, o.env)
           /\ globals' = o.globals
           /\ ret' = o.ret
           /\ trace' = o.trace
    /\ results' = <<>>
    /\ call' = [op |-> "step", envs |-> <<e>>, texts |-> <<action_text>>]
    /\ ops' = ops + 1
    /\ UNCHANGED <<sys_stdout, threads>>

\* a faulty construction: the clone's tool starts from the context g of the
\* source's tool
source_context(g) == g

\* `tool.__class__()` in copy: PythonTool.__init__ builds the context of the
\* new instance; the context g of the source's tool is not read
new_context(g) == InitGlobals

\* envs.append(envs[e].copy())
CopyOp(e) ==
    /\ envs' = Append(envs, copy(envs[e], Len(globals) + 1))
    /\ globals' = IF \E t \in Range(envs[e].tools) : t.cls = "PythonTool"
                  THEN LET source == CHOOSE t \in Range(envs[e].tools) :
                                        t.cls = "PythonTool"
                       IN  Append(globals, new_context(globals[source.inst]))
                  ELSE globals
    /\ ret' = NoReturn
    /\ results' = <<>>
    /\ trace' = <<>>
    /\ call' = [op |-> "copy", envs |-> <<e>>, texts |-> <<>>]
    /\ ops' = ops + 1
    /\ UNCHANGED <<sys_stdout, threads>>

\* step_batch(envs, action_texts) over all the episodes
StepBatch(action_texts) ==
    /\ ops < MaxOps
    /\ \E b \in {step_batch(envs, globals, action_texts)} :
           /\ envs' = b.envs
           /\ globals' = b.globals
           /\ ret' = IF b.exc = "" THEN NoReturn ELSE Raised(b.exc)
           /\ results' = IF b.exc = "" THEN b.results ELSE <<>>
           /\ trace' = b.trace
    /\ call' = [op |-> "step_batch", envs |-> [i \in DOMAIN envs |-> i],
                texts |-> action_texts]
    /\ ops' = ops + 1
    /\ UNCHANGED <<sys_stdout, threads>>

Step(e, action_text) == ops < MaxOps /\ StepOp(e, action_text)

Copy(e) == ops < MaxOps /\ Len(envs) < MaxEnvs /\ CopyOp(e)

Next ==
    \/ \E e \in DOMAIN envs, action_text \in Texts : Step(e, action_text)
    \/ \E e \in DOMAIN envs : Copy(e)
    \/ \E action_texts \in [DOMAIN envs -> BatchTexts] : StepBatch(action_texts)

Spec == Init /\ [][Next]_vars

---------------------------------------------------------------------------
(* Clones of an episode with a Python tool, stepped one at a time *)

PyTexts ==
    { CallText("python", [code |-> "x = 42"]),
      CallText("python", [code |-> "x = 100"]),
      CallText("python", [code |-> "x = 200"]),
      CallText("python", [code |-> "print(x)"]) }

CloneInit == Constructed({<<PythonTool(1)>>}, {MaxTurnsBound})

CloneStep(e, action_text) == ops < MaxCloneOps /\ StepOp(e, action_text)

CloneCopy(e) == ops < MaxCloneOps /\ Len(envs) < MaxClones + 1 /\ CopyOp(e)

CloneNext ==
    \/ \E e \in DOMAIN envs, action_text \in PyTexts : CloneStep(e, action_text)
    \/ CloneCopy(1)

SpecClone == CloneInit /\ [][CloneNext]_vars

---------------------------------------------------------------------------
(* One round of step_batch over an episode and its clones, after a set-up  *)
(* by step and copy.  The episodes hold, besides the Python tool and the   *)
(* calculator, the two tools whose batch_execute breaks the contract.      *)

BatchToolLists == { <<PythonTool(1), CalculatorTool, ShortBatchTool, LongBatchTool>> }

SetupTexts == { CallText("python", [code |-> "x = 42"]) }

RoundTexts ==
    { PlainText,
      CallText("foo", EmptyArgs),
      CallText("calculator", EmptyArgs),
      CallText("calculator", [expression |-> "2+2"]),
      CallText("calculator", [expression |-> "boom"]),
      CallText("python", [code |-> "x = 100"]),
      CallText("python", [code |-> "print(x)"]),
      CallText("short", EmptyArgs),
      CallText("long", EmptyArgs) }

\* the texts of a call with len(envs) # len(action_texts)
MismatchTexts == { PlainText, CallText("calculator", [expression |-> "2+2"]) }

BatchInit == Constructed(BatchToolLists, 1..MaxTurnsBound)

RoundPending == call.op # "step_batch"

SetupStep(e, action_text) == RoundPending /\ Step(e, action_text)

SetupCopy(e) ==
    RoundPending /\ ops < MaxOps /\ Len(envs) < MaxClones + 1 /\ CopyOp(e)

Round(action_texts) == RoundPending /\ StepBatch(action_texts)

MismatchedRound(action_texts) == RoundPending /\ StepBatch(action_texts)

BatchNext ==
    \/ \E e \in DOMAIN envs, action_text \in SetupTexts : SetupStep(e, action_text)
    \/ \E e \in DOMAIN envs : SetupCopy(e)
    \/ \E action_texts \in [DOMAIN envs -> RoundTexts] : Round(action_texts)
    \/ \E n \in {Len(envs) - 1, Len(envs) + 1} :
          \E action_texts \in [1..n -> MismatchTexts] : MismatchedRound(action_texts)

SpecBatch == BatchInit /\ [][BatchNext]_vars

---------------------------------------------------------------------------
(* Properties of the episode state and of step *)

\* the tracking sequences of an episode all have length steps_taken
tracking_aligned(env) ==
    /\ Len(env.rewards) = env.steps_taken
    /\ Len(env.actions) = env.steps_taken
    /\ Len(env.actions_valid) = env.steps_taken
    /\ Len(env.actions_effective) = env.steps_taken

\* C1: after any sequence of transitions through step and step_batch, the
\* four tracking sequences of every episode have length steps_taken (the
\* number of transition attempts made on it).
C1_TrackingLengths ==
    \A e \in DOMAIN envs : tracking_aligned(envs[e])

\* C2: in every reachable episode state an effective entry is also a valid
\* entry, and every info returned by step or step_batch has
\* action_is_effective => action_is_valid.
C2_EffectiveImpliesValid ==
    /\ \A e \in DOMAIN envs : \A i \in DOMAIN envs[e].actions_effective :
          envs[e].actions_effective[i] # None => envs[e].actions_valid[i] # None
    /\ ret.info.action_is_effective => ret.info.action_is_valid
    /\ \A i \in DOMAIN results :
          results[i] # None =>
             (results[i].info.action_is_effective => results[i].info.action_is_valid)

\* C2 witness: an episode holds an entry that is valid but not effective and
\* an entry that is effective
C2_Witness ==
    \E e \in DOMAIN envs : \E i, j \in DOMAIN envs[e].actions_effective :
        /\ envs[e].actions_valid[i] # None
        /\ envs[e].actions_effective[i] = None
        /\ envs[e].actions_effective[j] # None

\* the episode and the text of the last step call
StepEnv == envs[call.envs[1]]

StepText == call.texts[1]

StepReturned == call.op = "step" /\ ret.exc = ""

\* C4 as claimed: for every transition processed by step, done is true
\* exactly when steps_taken (after the increment) is >= max_turns.
C4_DoneIffTurnsReached ==
    StepReturned => (ret.done <=> StepEnv.steps_taken >= StepEnv.max_turns)

\* C4 amended: for every transition processed by step, done is true exactly
\* when the transition is on the successful-execution path and steps_taken
\* (after the increment) is >= max_turns.
C4_DoneIffSuccessAndTurnsReached ==
    StepReturned =>
        (ret.done <=> (/\ ret.info.action_is_effective
                       /\ StepEnv.steps_taken >= StepEnv.max_turns))

\* C4 witness: a successful step at the turn limit returned done
C4_Witness ==
    /\ StepReturned
    /\ ret.done
    /\ StepEnv.steps_taken = StepEnv.max_turns

\* how the text resolves against the episode before any tool is executed
resolution(env, action_text) ==
    LET action == extract_tool_call(action_text)
    IN  IF action = INVALID_ACTION THEN "invalid"
        ELSE IF action.tool \notin DOMAIN tool_map(env) THEN "unknown"
        ELSE IF ~validate_args(tool_map(env)[action.tool], action.args).is_valid
        THEN "invalid_args"
        ELSE "execute"

IsFaultObservation(observation) ==
    Len(observation) > 0 /\ observation[1] = "Error executing tool '"

\* a returned tuple of a transition that did not execute its tool successfully
Failed(env, action_text, r) ==
    \/ resolution(env, action_text) # "execute"
    \/ IsFaultObservation(r.observation)

\* C5: a transition that step or step_batch resolves as Invalid, unknown
\* tool, invalid arguments or runtime fault returns done = false whatever
\* steps_taken and max_turns are; done = true comes only from the
\* successful-execution path.
C5_FailedNeverDone ==
    /\ StepReturned =>
          /\ Failed(StepEnv, StepText, ret) => ~ret.done
          /\ ret.done => ret.info.action_is_effective
    /\ call.op = "step_batch" =>
          \A i \in DOMAIN results :
             results[i] # None =>
                /\ Failed(envs[i], call.texts[i], results[i]) => ~results[i].done
                /\ results[i].done => results[i].info.action_is_effective

\* C5 witness: a failed step at or past the turn limit returned done = false
C5_Witness ==
    /\ StepReturned
    /\ Failed(StepEnv, StepText, ret)
    /\ StepEnv.steps_taken >= StepEnv.max_turns
    /\ ~ret.done

\* the four tracking sequences of `after` are those of `before` with one
\* entry appended to each, and steps_taken is one more
one_entry_appended(before, after, response, valid_slot, effective_slot, reward) ==
    /\ after.steps_taken = before.steps_taken + 1
    /\ after.actions = Append(before.actions, response)
    /\ after.actions_valid = Append(before.actions_valid, valid_slot)
    /\ after.actions_effective = Append(before.actions_effective, effective_slot)
    /\ after.rewards = Append(before.rewards, reward)

\* the tool methods of the given name invoked by the last operation
invocations(tr, method) == {i \in DOMAIN tr : tr[i].method = method}

\* C6: when step parses a Call for a registered tool whose arguments validate
\* and whose execute returns result r without raising, it returns
\* (r, calculate_reward(args, r), _, {valid: true, effective: true}), appends
\* exactly one record {tool, args, result} to tool_history, increments
\* steps_taken by one and appends one entry to each tracking sequence.
C6_SuccessfulStep ==
    [][ (call'.op = "step" /\ resolution(envs[call'.envs[1]], call'.texts[1]) = "execute") =>
          LET e == call'.envs[1]
              action_text == call'.texts[1]
              action == extract_tool_call(action_text)
              tool == tool_map(envs[e])[action.tool]
              x == execute(tool, globals, action.args)
          IN  x.kind = "return" =>
                /\ ret'.exc = ""
                /\ ret'.observation = x.result
                /\ ret'.reward = calculate_reward(tool, action.args, x.result)
                /\ ret'.info = [action_is_valid |-> TRUE, action_is_effective |-> TRUE]
                /\ envs'[e].tool_history =
                      Append(envs[e].tool_history,
                             [tool |-> action.tool, args |-> action.args,
                              result |-> x.result])
                /\ one_entry_appended(envs[e], envs'[e], action_text, action, action,
                                      ret'.reward)
      ]_vars

\* C6 witness: a step executed its tool and recorded the call
C6_Witness ==
    /\ StepReturned
    /\ ret.info.action_is_effective
    /\ Len(StepEnv.tool_history) > 0
    /\ StepEnv.tool_history[Len(StepEnv.tool_history)].result = ret.observation

\* C7: when the parsed action is Invalid, step returns the fixed 'Invalid
\* tool call format...' observation, reward PENALTY_FOR_INVALID (-0.1), done
\* false and info {valid: false, effective: false}; steps_taken grows by
\* one, the raw text is recorded with null markers in the valid and the
\* effective slot, and tool_history and every tool's state are unchanged.
C7_InvalidStep ==
    [][ (call'.op = "step" /\ extract_tool_call(call'.texts[1]) = INVALID_ACTION) =>
          LET e == call'.envs[1]
          IN  /\ ret' = Returned(InvalidFormatMsg, -100, FALSE, FALSE, FALSE)
              /\ one_entry_appended(envs[e], envs'[e], call'.texts[1], None, None, -100)
              /\ envs'[e].tool_history = envs[e].tool_history
              /\ globals' = globals
              /\ trace' = <<>>
      ]_vars

\* C7 witness: a step on a text without a tool call returned the penalty
C7_Witness ==
    /\ call.op = "step"
    /\ extract_tool_call(StepText) = INVALID_ACTION
    /\ ret.reward = PENALTY_FOR_INVALID
    /\ StepEnv.actions[Len(StepEnv.actions)] = StepText

\* C8: for every parsed Call whose tool name is not a key of the episode's
\* tool_map, step returns 'Unknown tool: <name>', PENALTY_FOR_INEFFECTIVE,
\* done false and info {valid: true, effective: false}; the action is
\* recorded in the valid slot and a null marker in the effective slot; no
\* tool is validated or executed and tool_history is unchanged.
C8_UnknownToolStep ==
    [][ (call'.op = "step" /\ resolution(envs[call'.envs[1]], call'.texts[1]) = "unknown") =>
          LET e == call'.envs[1]
              action == extract_tool_call(call'.texts[1])
          IN  /\ ret' = Returned(<<"Unknown tool: ", action.tool>>, -50, FALSE, TRUE, FALSE)
              /\ one_entry_appended(envs[e], envs'[e], call'.texts[1], action, None, -50)
              /\ envs'[e].tool_history = envs[e].tool_history
              /\ globals' = globals
              /\ trace' = <<>>
      ]_vars

\* C9: when the named tool exists but validate_args returns (false, msg),
\* step returns "Invalid arguments for tool '<name>': <msg>",
\* PENALTY_FOR_INEFFECTIVE, done false and info {valid: true, effective:
\* false}; execute is never called and tool_history is unchanged.
C9_InvalidArgsStep ==
    [][ (call'.op = "step" /\ resolution(envs[call'.envs[1]], call'.texts[1]) = "invalid_args") =>
          LET e == call'.envs[1]
              action == extract_tool_call(call'.texts[1])
              v == validate_args(tool_map(envs[e])[action.tool], action.args)
          IN  /\ ret' = Returned(<<"Invalid arguments for tool '", action.tool, "': ",
                                   v.error_msg>>,
                                 PENALTY_FOR_INEFFECTIVE, FALSE, TRUE, FALSE)
              /\ invocations(trace', "execute") = {}
              /\ envs'[e].tool_history = envs[e].tool_history
              /\ globals' = globals
      ]_vars

\* C9 witness: a step on a registered tool was answered 'Invalid arguments'
C9_Witness ==
    /\ StepReturned
    /\ resolution(StepEnv, StepText) = "invalid_args"
    /\ ret.observation[1] = "Invalid arguments for tool '"
    /\ invocations(trace, "validate_args") # {}

\* entry i of the episode records a runtime fault: a valid action for a
\* registered tool with accepted arguments that was not effective
fault_entry(env, i) ==
    /\ env.actions_valid[i] # None
    /\ env.actions_effective[i] = None
    /\ resolution(env, env.actions[i]) = "execute"

\* C10: when the tool's execute raises a runtime fault inside step, the
\* fault is caught: step returns "Error executing tool '<name>': <fault>",
\* PENALTY_FOR_INEFFECTIVE, done false and info {valid: true, effective:
\* false}; no record is appended to tool_history, the tracking sequences get
\* exactly one entry, and a later step on the same episode with a good call
\* is processed as a successful one.
C10_RuntimeFaultStep ==
    [][ (call'.op = "step" /\ resolution(envs[call'.envs[1]], call'.texts[1]) = "execute") =>
          LET e == call'.envs[1]
              action_text == call'.texts[1]
              action == extract_tool_call(action_text)
              tool == tool_map(envs[e])[action.tool]
              x == execute(tool, globals, action.args)
          IN  /\ (x.kind = "raise" /\ x.exc = "Exception") =>
                    /\ ret' = Returned(<<"Error executing tool '", action.tool, "': ">>
                                          \o x.result,
                                       PENALTY_FOR_INEFFECTIVE, FALSE, TRUE, FALSE)
                    /\ envs'[e].tool_history = envs[e].tool_history
                    /\ one_entry_appended(envs[e], envs'[e], action_text, action, None,
                                          PENALTY_FOR_INEFFECTIVE)
              /\ ((\E i \in DOMAIN envs[e].actions : fault_entry(envs[e], i))
                    /\ x.kind = "return") =>
                    /\ ret'.exc = ""
                    /\ ret'.info.action_is_effective
                    /\ ret'.observation = x.result
                    /\ Len(envs'[e].tool_history) = Len(envs[e].tool_history) + 1
      ]_vars

\* C10 witness: an episode recorded a runtime fault and, later, an effective
\* call
C10_Witness ==
    \E e \in DOMAIN envs : \E i, j \in DOMAIN envs[e].actions :
        /\ i < j
        /\ fault_entry(envs[e], i)
        /\ envs[e].rewards[i] = PENALTY_FOR_INEFFECTIVE
        /\ envs[e].actions_effective[j] # None

---------------------------------------------------------------------------
(* Isolation of the Python tools of clones *)

\* self.globals of the episode's Python tool
python_globals(env, h) == h[tool_map(env)["python"].inst]

AssignCodes == {"x = 42", "x = 100", "x = 200"}

\* C3: for an episode with a Python tool and its clones, under any
\* interleaving of step calls, a step in one episode leaves the names of
\* every other episode's Python tool as they were; a name assigned by a step
\* is bound, in that episode, to the value assigned there, and a step that
\* prints the name reads back the value bound in its own episode.
C3_CloneIsolation ==
    [][ call'.op = "step" =>
          LET d == call'.envs[1]
              action == extract_tool_call(call'.texts[1])
              mine == python_globals(envs[d], globals)
          IN  /\ \A e \in DOMAIN envs :
                    e # d => python_globals(envs'[e], globals') =
                             python_globals(envs[e], globals)
              /\ (action.tool = "python" /\ "code" \in DOMAIN action.args
                    /\ action.args.code \in AssignCodes) =>
                    /\ "x" \in DOMAIN python_globals(envs'[d], globals')
                    /\ python_globals(envs'[d], globals').x =
                          assigned_value(action.args.code)
              /\ (action.tool = "python" /\ "code" \in DOMAIN action.args
                    /\ action.args.code = "print(x)" /\ "x" \in DOMAIN mine) =>
                    /\ ret'.observation = <<"stdout", printed(mine.x), "stderr", "">>
                    /\ python_globals(envs'[d], globals') = mine
      ]_vars

\* C3 witness: x = 42 in E, x = 100 in E1, x = 200 in E2, and the last step
\* printed x in E1 and read 100
C3_Witness ==
    /\ Len(envs) = 3
    /\ python_globals(envs[1], globals) = [x |-> 42]
    /\ python_globals(envs[2], globals) = [x |-> 100]
    /\ python_globals(envs[3], globals) = [x |-> 200]
    /\ call = [op |-> "step", envs |-> <<2>>,
               texts |-> <<CallText("python", [code |-> "print(x)"])>>]
    /\ ret.observation = <<"stdout", "100\n", "stderr", "">>

---------------------------------------------------------------------------
(* Properties of step_batch *)

\* the last operation was step_batch on lists of equal length
RoundCalled == call.op = "step_batch" /\ Len(call.texts) = Len(call.envs)

\* the last step_batch call returned its result list
BatchReturned == RoundCalled /\ ret.exc = "none"

\* index i takes part in batching
passing(es, action_texts, i) == resolution(es[i], action_texts[i]) = "execute"

\* the tool names of the groups of the round
group_names(es, action_texts) ==
    {extract_tool_call(action_texts[i]).tool :
        i \in {j \in DOMAIN action_texts : passing(es, action_texts, j)}}

\* the indices of the group of tool name n, ascending
group_indices(es, action_texts, n) ==
    SelectSeq([i \in DOMAIN action_texts |-> i],
              LAMBDA i : /\ passing(es, action_texts, i)
                         /\ extract_tool_call(action_texts[i]).tool = n)

\* the argument mappings of the group of tool name n, by ascending index
group_args(es, action_texts, n) ==
    LET indices == group_indices(es, action_texts, n)
    IN  [k \in DOMAIN indices |-> extract_tool_call(action_texts[indices[k]]).args]

\* the groups of the round whose batch_execute raises
faulting_groups(es, h, action_texts) ==
    {n \in group_names(es, action_texts) :
        LET first == group_indices(es, action_texts, n)[1]
        IN  tool_batch_execute(tool_map(es[first])[n], h,
                               group_args(es, action_texts, n)).exc # ""}

\* the groups of the round whose batch_execute returns a list of another
\* length than its argument list
mismatching_groups(es, h, action_texts) ==
    {n \in group_names(es, action_texts) :
        LET first == group_indices(es, action_texts, n)[1]
            b == tool_batch_execute(tool_map(es[first])[n], h,
                                    group_args(es, action_texts, n))
        IN  b.exc = "" /\ Len(b.results) # Len(group_args(es, action_texts, n))}

\* every tool called in the round keeps the contract of batch_execute: one
\* result per argument mapping
contract_kept(es, h, action_texts) == mismatching_groups(es, h, action_texts) = {}

\* C11: whenever step_batch(envs, action_texts) returns, the result list has
\* length len(envs), no slot is left empty, and slot i is the outcome of
\* action_texts[i] applied to envs[i] (what step returns for that episode
\* and text), whatever the grouping by tool.  Stated for the rounds in which
\* every batch_execute returns one result per argument mapping.
C11_ResultsIndexAligned ==
    [][ (/\ call'.op = "step_batch"
         /\ ret'.exc = "none"
         /\ contract_kept(envs, globals, call'.texts)) =>
          /\ Len(results') = Len(envs)
          /\ \A i \in DOMAIN envs :
                /\ results'[i] # None
                /\ results'[i] = step(envs[i], globals, call'.texts[i]).ret
      ]_vars

\* the batch_execute calls of the last operation on the tool named n
batch_calls(n) == {k \in invocations(trace, "batch_execute") : trace[k].tool = n}

\* every batch_execute call of the last operation is for a group of the
\* round, no group has two, and each call carries the arguments of its group
\* in ascending index order: nothing of an index that failed in the first pass
batch_calls_grouped ==
    /\ \A k \in invocations(trace, "batch_execute") :
          /\ trace[k].tool \in group_names(envs, call.texts)
          /\ trace[k].args = group_args(envs, call.texts, trace[k].tool)
    /\ \A n \in group_names(envs, call.texts) : Cardinality(batch_calls(n)) <= 1

\* C12 as claimed: in one step_batch call, batch_execute is invoked exactly
\* once for each distinct tool name among the actions that passed parsing,
\* tool lookup and validation, with the arguments of that group in ascending
\* index order; the other indices contribute no element to any call.
C12_OneBatchCallPerTool ==
    RoundCalled =>
        /\ batch_calls_grouped
        /\ \A n \in group_names(envs, call.texts) : Cardinality(batch_calls(n)) = 1

\* C12 amended: in a step_batch call that returns, batch_execute is invoked
\* exactly once for each distinct tool name among the passing actions, with
\* the arguments of that group in ascending index order; in a call that
\* raises, each group is invoked at most once and the groups after the
\* raising one are not invoked; in both, the indices resolved in the first
\* pass contribute no element to any call.
C12_OneBatchCallPerToolOnReturn ==
    RoundCalled =>
        /\ batch_calls_grouped
        /\ BatchReturned =>
              \A n \in group_names(envs, call.texts) : Cardinality(batch_calls(n)) = 1
        /\ ~BatchReturned =>
              /\ trace # <<>>
              /\ trace[Len(trace)].method = "batch_execute"

\* C12 witness: a round of three texts returned; two calculator calls and a
\* malformed text gave one batch_execute call with a two-element list
C12_Witness ==
    /\ BatchReturned
    /\ Len(call.texts) = 3
    /\ \E i \in DOMAIN call.texts : call.texts[i] = PlainText
    /\ Cardinality(invocations(trace, "batch_execute")) = 1
    /\ \E k \in batch_calls("calculator") : Len(trace[k].args) = 2

\* C13: for the same episodes and the same valid calls, one step_batch call
\* yields for every index the same observation, reward, done flag and info,
\* and the same resulting episode state, as step on each episode separately.
\* Stated for the rounds in which every batch_execute returns one result per
\* argument mapping.
C13_BatchEqualsStep ==
    [][ (/\ call'.op = "step_batch"
         /\ ret'.exc = "none"
         /\ contract_kept(envs, globals, call'.texts)) =>
          \A i \in DOMAIN envs :
             passing(envs, call'.texts, i) =>
                LET o == step(envs[i], globals, call'.texts[i])
                IN  o.ret.info.action_is_effective =>
                       /\ results'[i] = o.ret
                       /\ envs'[i] = o.env
      ]_vars

\* the call of index i is a Python call
python_call(es, action_texts, i) ==
    /\ passing(es, action_texts, i)
    /\ extract_tool_call(action_texts[i]).tool = "python"

\* C14: in step_batch over episodes that each own their instance of the
\* Python tool, each call is executed against its own episode's instance:
\* after the batch the context of episode i's tool is what episode i's call
\* alone makes of it, and it is unchanged when episode i made no Python call.
C14_BatchOwnInstance ==
    [][ (call'.op = "step_batch" /\ ret'.exc = "none") =>
          \A i \in DOMAIN envs :
             python_globals(envs'[i], globals') =
                IF python_call(envs, call'.texts, i)
                THEN python_execute(python_globals(envs[i], globals),
                                    extract_tool_call(call'.texts[i]).args).globals
                ELSE python_globals(envs[i], globals)
      ]_vars

C16_BatchFaultSurfaced ==
    [][ (call'.op = "step_batch" /\ Len(call'.texts) = Len(envs)) =>
          LET faulting == faulting_groups(envs, globals, call'.texts)
          IN  faulting # {} =>
                 /\ ret'.exc \notin {"", "none"}
                 /\ results' = <<>>
                 /\ \A n \in faulting :
                       \A i \in Range(group_indices(envs, call'.texts, n)) :
                          envs'[i] = envs[i]
      ]_vars

\* C16 witness: a round with two calculator calls, the second one raising,
\* raised and left both episodes without a transition
C16_Witness ==
    /\ RoundCalled
    /\ ret.exc = "Exception"
    /\ Len(envs) >= 2
    /\ call.texts[1] = CallText("calculator", [expression |-> "2+2"])
    /\ call.texts[2] = CallText("calculator", [expression |-> "boom"])
    /\ envs[1].steps_taken = 0
    /\ envs[2].steps_taken = 0

\* C17: if a tool's batch_execute returns a list whose length differs from
\* that of its argument list, step_batch raises instead of returning; it
\* never returns a list that is truncated, padded or has unfilled slots.
C17_BatchLengthMismatchRaises ==
    [][ (call'.op = "step_batch" /\ Len(call'.texts) = Len(envs)) =>
          (mismatching_groups(envs, globals, call'.texts) # {} =>
              /\ ret'.exc \notin {"", "none"}
              /\ results' = <<>>)
      ]_vars

\* C18: step_batch called with len(envs) # len(action_texts) fails before
\* any parsing or execution: no episode's steps_taken, tool_history or
\* tracking sequences change and no tool is invoked.
C18_LengthsChecked ==
    [][ (call'.op = "step_batch" /\ Len(call'.texts) # Len(envs)) =>
          /\ ret'.exc = "AssertionError"
          /\ results' = <<>>
          /\ envs' = envs
          /\ globals' = globals
          /\ trace' = <<>>
      ]_vars

\* C18 witness: a call with two episodes and one text, a good calculator
\* call, was refused
C18_Witness ==
    /\ call.op = "step_batch"
    /\ Len(envs) = 2
    /\ call.texts = <<CallText("calculator", [expression |-> "2+2"])>>
    /\ ret.exc = "AssertionError"
    /\ \A e \in DOMAIN envs : envs[e].steps_taken = 0

---------------------------------------------------------------------------
(* Properties of copy *)

\* the tool holds an execution context that its calls change
stateful(tool) == tool.cls = "PythonTool"

\* C19: copy() returns an episode whose tool list has the same length, order
\* and names as the source; for every stateful tool the clone holds an
\* instance distinct from the source's (a new one, held by no episode so
\* far), for every stateless tool the very same instance as the source;
\* max_turns is equal.
C19_CopyTools ==
    [][ call'.op = "copy" =>
          LET src == envs[call'.envs[1]]
              c == envs'[Len(envs')]
          IN  /\ Len(envs') = Len(envs) + 1
              /\ Len(c.tools) = Len(src.tools)
              /\ c.max_turns = src.max_turns
              /\ \A i \in DOMAIN src.tools :
                    /\ c.tools[i].name = src.tools[i].name
                    /\ c.tools[i].cls = src.tools[i].cls
                    /\ stateful(src.tools[i]) =>
                          /\ \A e \in DOMAIN envs : \A t \in Range(envs[e].tools) :
                                stateful(t) => t.inst # c.tools[i].inst
                          /\ globals'[c.tools[i].inst] = InitGlobals
                    /\ ~stateful(src.tools[i]) => c.tools[i] = src.tools[i]
      ]_vars

\* C19 witness: the source's Python tool has bound x; the clone just made
\* holds a new, empty Python tool and the source's calculator
C19_Witness ==
    /\ call.op = "copy"
    /\ Len(envs) = 2
    /\ python_globals(envs[1], globals) = [x |-> 42]
    /\ python_globals(envs[2], globals) = InitGlobals
    /\ envs[2].tools[1].inst # envs[1].tools[1].inst
    /\ envs[2].tools[2] = envs[1].tools[2]

\* tool_history, rewards, steps_taken and the three tracking sequences
tracking_state(env) ==
    <<env.tool_history, env.rewards, env.steps_taken,
      env.actions, env.actions_valid, env.actions_effective>>

\* sequence s with at most one entry appended
grown_by_at_most_one(s, t) ==
    /\ Len(s) <= Len(t)
    /\ Len(t) <= Len(s) + 1
    /\ SubSeq(t, 1, Len(s)) = s

\* the episode got the entries of at most one transition, its own
own_transition_only(before, after) ==
    /\ after.steps_taken \in {before.steps_taken, before.steps_taken + 1}
    /\ grown_by_at_most_one(before.tool_history, after.tool_history)
    /\ grown_by_at_most_one(before.rewards, after.rewards)
    /\ grown_by_at_most_one(before.actions, after.actions)
    /\ grown_by_at_most_one(before.actions_valid, after.actions_valid)
    /\ grown_by_at_most_one(before.actions_effective, after.actions_effective)

\* C20: immediately after c = e.copy(), c's tool_history, rewards,
\* steps_taken and three tracking sequences equal e's in value; copy()
\* leaves all of e's state (and every other episode's) unchanged; and a
\* later transition by step on one of the episodes leaves tool_history,
\* rewards, steps_taken and the tracking sequences of the others unchanged
\* (in a step_batch round, every episode gets the entries of its own
\* transition and of no other).
C20_CopyIndependent ==
    [][ /\ call'.op = "copy" =>
              /\ tracking_state(envs'[Len(envs')]) = tracking_state(envs[call'.envs[1]])
              /\ \A e \in DOMAIN envs : envs'[e] = envs[e]
              /\ \A k \in DOMAIN globals : globals'[k] = globals[k]
        /\ call'.op = "step" =>
              \A e \in DOMAIN envs :
                 e # call'.envs[1] => tracking_state(envs'[e]) = tracking_state(envs[e])
        /\ call'.op = "step_batch" =>
              \A e \in DOMAIN envs : own_transition_only(envs[e], envs'[e])
      ]_vars

\* C20 witness: the clone started with the source's one-entry trace and has
\* just made a transition of its own; the source still has one entry
C20_Witness ==
    /\ call = [op |-> "step", envs |-> <<2>>, texts |-> call.texts]
    /\ Len(envs) = 2
    /\ envs[1].steps_taken = 1
    /\ Len(envs[1].tool_history) = 1
    /\ envs[2].steps_taken = 2
    /\ envs[2].actions[1] = envs[1].actions[1]
    /\ envs[2].tool_history[1] = envs[1].tool_history[1]

---------------------------------------------------------------------------
(* extract_tool_call as a function of the text: the text is drawn from the *)
(* concatenations of at most MaxSegs segments, then parsed                 *)

MaxSegs == 3

Region(content) == <<OpenTag>> \o content \o <<CloseTag>>

GoodCall == JsonObject([name |-> "calculator", arguments |-> [expression |-> "2+2"]])

NameOnly == JsonObject([name |-> "python"])

ParseSegments ==
    { <<Junk>>, <<Ws>>, <<OpenTag>>, <<CloseTag>>,
      Region(<<>>), Region(<<Junk>>), Region(<<GoodCall>>), Region(<<NameOnly>>),
      Region(<<JsonObject([name |-> "python", arguments |-> None])>>),
      Region(<<JsonObject([arguments |-> [code |-> "x = 42"]])>>),
      Region(<<JsonArray(<<"name">>)>>), Region(<<JsonArray(<<>>)>>),
      Region(<<JsonString("name")>>), Region(<<JsonString("python")>>),
      Region(<<JsonNumber>>), Region(<<JsonNull>>), Region(<<JsonDeep>>),
      Region(<<Ws, GoodCall, Ws>>), Region(<<GoodCall, Junk>>) }

RECURSIVE texts_of(_)
texts_of(n) ==
    IF n = 0 THEN {<<>>}
    ELSE LET shorter == texts_of(n - 1)
         IN  shorter \cup {a \o seg : a \in shorter, seg \in ParseSegments}

ParseTexts == texts_of(MaxSegs)

ParseInit ==
    /\ \E text \in ParseTexts : call = [op |-> "init", envs |-> <<>>, texts |-> <<text>>]
    /\ envs = <<ToolEnv(<<PythonTool(1), CalculatorTool>>, 1)>>
    /\ globals = <<InitGlobals>>
    /\ ret = NoReturn
    /\ results = <<>>
    /\ trace = <<>>
    /\ ops = 0
    /\ sys_stdout = 0
    /\ threads = <<>>

\* env.extract_tool_call(text): results holds what the call gave
Extract ==
    /\ call.op = "init"
    /\ call' = [call EXCEPT !.op = "extract_tool_call", !.envs = <<1>>]
    /\ results' = <<extract_outcome(call.texts[1])>>
    /\ ops' = ops + 1
    /\ UNCHANGED <<envs, globals, ret, trace, sys_stdout, threads>>

ParseNext == Extract

SpecParse == ParseInit /\ [][ParseNext]_vars

---------------------------------------------------------------------------
(* extract_tool_call called between the transitions of an episode; results *)
(* is the log of the calls: the text given and what the call gave          *)

PureInit == Constructed(ToolLists, {MaxTurnsBound})

\* env.extract_tool_call(text), called from outside step
PureExtract(text) ==
    /\ ops < MaxOps
    /\ results' = Append(results, [text |-> text, outcome |-> extract_outcome(text)])
    /\ call' = [op |-> "extract_tool_call", envs |-> <<1>>, texts |-> <<text>>]
    /\ ops' = ops + 1
    /\ UNCHANGED <<envs, globals, ret, trace, sys_stdout, threads>>

\* step(envs[1], action_text)
PureStep(action_text) ==
    /\ ops < MaxOps
    /\ \E o \in {step(envs[1], globals, action_text)} :
           /\ envs' = put(envs, 1, o.env)
           /\ globals' = o.globals
           /\ ret' = o.ret
           /\ trace' = o.trace
    /\ call' = [op |-> "step", envs |-> <<1>>, texts |-> <<action_text>>]
    /\ ops' = ops + 1
    /\ UNCHANGED <<results, sys_stdout, threads>>

PureNext ==
    \/ \E text \in Texts : PureExtract(text)
    \/ \E action_text \in Texts : PureStep(action_text)

SpecPure == PureInit /\ [][PureNext]_vars

---------------------------------------------------------------------------
(* PythonTool.calculate_reward as a function of the result and of the size *)
(* of the code: both are drawn, then the reward is computed                *)

MaxNodes == 102

RewardResults ==
    { Undecodable, ScalarJson,
      <<"error", "No code provided">>,
      <<"error", "name 'x' is not defined", "traceback", "NameError",
        "stdout", "", "stderr", "">>,
      <<"stdout", "", "stderr", "">>,
      <<"stdout", "42\n", "stderr", "">> }

RewardInit ==
    /\ \E result \in RewardResults, n \in 0..MaxNodes :
          call = [op |-> "init", envs |-> <<>>, texts |-> <<>>,
                  result |-> result, nodes |-> n]
    /\ envs = <<ToolEnv(<<PythonTool(1)>>, 1)>>
    /\ globals = <<InitGlobals>>
    /\ ret = NoReturn
    /\ results = <<>>
    /\ trace = <<>>
    /\ ops = 0
    /\ sys_stdout = 0
    /\ threads = <<>>

\* tool.calculate_reward(args, result) for code of call.nodes nodes
Reward ==
    /\ call.op = "init"
    /\ call' = [call EXCEPT !.op = "calculate_reward"]
    /\ results' = <<reward_for(call.result, call.nodes)>>
    /\ ops' = ops + 1
    /\ UNCHANGED <<envs, globals, ret, trace, sys_stdout, threads>>

RewardNext == Reward

SpecReward == RewardInit /\ [][RewardNext]_vars

---------------------------------------------------------------------------
(* _default_tools: the tools of an environment type.  Every instance       *)
(* created is a new entry of the heap `globals`; the argument is a list of *)
(* names or a string.                                                      *)

\* the local tool_map of _default_tools: name and class, in insertion order
tool_classes ==
    << [key |-> "search", cls |-> "SearchTool"],
       [key |-> "calculator", cls |-> "CalculatorTool"],
       [key |-> "wikisearch", cls |-> "WikiSearchTool"],
       [key |-> "python", cls |-> "PythonTool"] >>

tool_names == {tool_classes[i].key : i \in DOMAIN tool_classes}

class_of(tool_name) ==
    tool_classes[CHOOSE i \in DOMAIN tool_classes : tool_classes[i].key = tool_name].cls

\* an instance handed out again: the i-th object of the heap
existing_instance(heap, i) == i

\* the i-th instance created by a call made on the heap
new_instance(heap, i) == Len(heap) + i

\* tool_class()
instantiate(cls, id) == [cls |-> cls, inst |-> id]

NameList(names) == [kind |-> "list", names |-> names]

EnvType(value) == [kind |-> "str", value |-> value]

default_tools(env, heap) ==
    IF env.kind = "list"
    THEN LET known(tool_name) == tool_name \in tool_names
             kept == SelectSeq(env.names, known)
         IN  [exc |-> "",
              tools |-> [i \in DOMAIN kept |->
                           instantiate(class_of(kept[i]), new_instance(heap, i))]]
    ELSE IF env.value \in tool_names
    THEN [exc |-> "", tools |-> <<instantiate(class_of(env.value), new_instance(heap, 1))>>]
    ELSE IF env.value = "all"
    THEN [exc |-> "",
          tools |-> [i \in DOMAIN tool_classes |->
                       instantiate(tool_classes[i].cls, new_instance(heap, i))]]
    ELSE IF env.value = "none"
    THEN [exc |-> "", tools |-> <<>>]
    ELSE [exc |-> "NotImplementedError", tools |-> <<>>]

EnvArgs ==
    { NameList(<<>>), NameList(<<"python">>), NameList(<<"python", "calculator">>),
      NameList(<<"calculator", "python">>), NameList(<<"python", "python">>),
      NameList(<<"search", "wikisearch", "calculator", "python">>),
      NameList(<<"python", "bogus">>),
      EnvType("search"), EnvType("calculator"), EnvType("wikisearch"),
      EnvType("python"), EnvType("all"), EnvType("none"), EnvType("bogus") }

ToolsInit ==
    /\ envs = <<>>
    /\ globals = <<>>
    /\ call = [op |-> "init", envs |-> <<>>, texts |-> <<>>]
    /\ ret = NoReturn
    /\ results = <<>>
    /\ trace = <<>>
    /\ ops = 0
    /\ sys_stdout = 0
    /\ threads = <<>>

\* _default_tools(env): results is the list returned, ret the exception raised
DefaultTools(env) ==
    /\ ops < MaxOps
    /\ \E o \in {default_tools(env, globals)} :
           /\ results' = o.tools
           /\ ret' = IF o.exc = "" THEN NoReturn ELSE Raised(o.exc)
           /\ globals' = globals \o [i \in DOMAIN o.tools |-> InitGlobals]
    /\ call' = [op |-> "_default_tools", envs |-> <<>>, texts |-> <<env>>]
    /\ ops' = ops + 1
    /\ UNCHANGED <<envs, trace, sys_stdout, threads>>

ToolsNext == \E env \in EnvArgs : DefaultTools(env)

SpecTools == ToolsInit /\ [][ToolsNext]_vars

---------------------------------------------------------------------------
(* One episode stepped for as long as successful calls keep occurring:     *)
(* failed turns stop LiveCap - 1 attempts in, a successful call is always  *)
(* possible until done was returned or LiveCap attempts were made          *)

LiveCap == MaxTurnsBound + 2

LiveInit == Constructed(ToolLists, 1..MaxTurnsBound)

\* step returned with info action_is_effective
Succeeded(r) == r.exc = "" /\ r.info.action_is_effective

\* a turn that fails: Invalid, unknown tool, bad arguments, fault or raise
LiveFail(action_text) ==
    /\ envs[1].steps_taken < LiveCap - 1
    /\ StepOp(1, action_text)
    /\ ~Succeeded(ret')

\* a successful call is still asked for: done was not returned by the last
\* call and fewer than LiveCap attempts were made
can_succeed == envs[1].steps_taken < LiveCap /\ ~ret.done

\* a turn that succeeds
LiveSucceed(action_text) ==
    /\ can_succeed
    /\ StepOp(1, action_text)
    /\ Succeeded(ret')

\* the step just taken is a successful call of the calculator, which every
\* episode of LiveInit holds: what it returns, whatever done is
CalculatorSucceeds ==
    /\ can_succeed
    /\ ops' = ops + 1
    /\ \E done \in BOOLEAN : ret' = Returned(<<"4">>, 0, done, TRUE, TRUE)

LiveNext ==
    \/ \E action_text \in Texts : LiveFail(action_text)
    \/ \E action_text \in Texts : LiveSucceed(action_text)

\* successful calls keep occurring
SpecLive ==
    /\ LiveInit
    /\ [][LiveNext]_vars
    /\ WF_ops(CalculatorSucceeds)

---------------------------------------------------------------------------
(* Tool calls that name the tool "invalid" *)

\* a well-formed tool call without an "arguments" field
NameOnlyCall(name) == ToolCall([name |-> name])

\* well-formed blocks naming "invalid" with empty or omitted arguments
InvalidNameTexts == { CallText("invalid", EmptyArgs), NameOnlyCall("invalid") }

SentinelTexts ==
    InvalidNameTexts \cup
    { PlainText,
      CallText("invalid", [a |-> "1"]),
      CallText("foo", EmptyArgs),
      NameOnlyCall("foo") }

SentinelNext ==
    \/ \E e \in DOMAIN envs, action_text \in SentinelTexts : Step(e, action_text)
    \/ \E e \in DOMAIN envs : Copy(e)
    \/ \E action_texts \in [DOMAIN envs -> SentinelTexts] : StepBatch(action_texts)

SpecSentinel == Init /\ [][SentinelNext]_vars

---------------------------------------------------------------------------
(* Python calls whose code faults *)

FaultyToolLists == { <<PythonTool(1), CalculatorTool>> }

FaultyTexts ==
    { CallText("python", [code |-> "x = 42"]),
      CallText("python", [code |-> "print(x)"]),
      CallText("python", [code |-> ""]),
      CallText("python", [code |-> " "]),
      CallText("calculator", [expression |-> "boom"]) }

FaultyInit == Constructed(FaultyToolLists, 1..MaxTurnsBound)

FaultyStep(action_text) == Step(1, action_text)

FaultyNext == \E action_text \in FaultyTexts : FaultyStep(action_text)

SpecFaulty == FaultyInit /\ [][FaultyNext]_vars

---------------------------------------------------------------------------
(* A tool whose calculate_reward raises *)

ScoreTexts ==
    { CallText("python", [code |-> "x = 42"]),
      CallText("python", [code |-> "x = 100"]),
      CallText("python", [code |-> "print(x)"]),
      CallText("python", EmptyArgs),
      CallText("calculator", [expression |-> "2+2"]) }

ScoreInit == Constructed({ <<ScoreFaultTool(1), CalculatorTool>> }, 1..MaxTurnsBound)

ScoreStep(action_text) == Step(1, action_text)

ScoreRound(action_texts) == StepBatch(action_texts)

ScoreNext ==
    \/ \E action_text \in ScoreTexts : ScoreStep(action_text)
    \/ \E action_texts \in [DOMAIN envs -> ScoreTexts] : ScoreRound(action_texts)

SpecScore == ScoreInit /\ [][ScoreNext]_vars

---------------------------------------------------------------------------
(* step called concurrently, one thread per episode, every episode with    *)
(* its own Python tool.  A thread runs PythonTool.execute statement by     *)
(* statement; sys.stdout belongs to the process.  The content of a         *)
(* StringIO is the sequence of the chunks written to it.                   *)

ConcTexts ==
    { CallText("python", [code |-> "x = 42"]),
      CallText("python", [code |-> "x = 100"]),
      CallText("python", [code |-> "print(x)"]) }

\* a thread between two step calls
Idle == [pc |-> "idle", text |-> <<>>, buf |-> <<>>, error |-> FALSE,
         result |-> <<>>, ret |-> NoReturn]

\* what the code writes with print, run on the context g
python_output(g, code) ==
    IF code = "print(x)" /\ "x" \in DOMAIN g THEN <<printed(g.x)>> ELSE <<>>

\* the code raises an Exception on the context g
python_raises(g, code) == code = "print(x)" /\ "x" \notin DOMAIN g

ConcInit ==
    /\ envs = [i \in 1..MaxEnvs |->
                 IF i = 1 THEN ToolEnv(<<PythonTool(1)>>, MaxTurnsBound)
                 ELSE copy(ToolEnv(<<PythonTool(1)>>, MaxTurnsBound), i)]
    /\ globals = [i \in 1..MaxEnvs |-> InitGlobals]
    /\ threads = [i \in 1..MaxEnvs |-> Idle]
    /\ sys_stdout = 0
    /\ call = [op |-> "init", envs |-> <<>>, texts |-> <<>>]
    /\ ret = NoReturn
    /\ results = <<>>
    /\ trace = <<>>
    /\ ops = 0

\* step, up to the call of tool.execute: the attempt is counted, the text
\* parsed, the tool found and its arguments accepted
ConcBegin(k, action_text) ==
    /\ threads[k].pc = "idle"
    /\ envs[k].steps_taken < MaxTurnsBound
    /\ resolution(envs[k], action_text) = "execute"
    /\ envs' = [envs EXCEPT ![k].steps_taken = @ + 1]
    /\ threads' = [threads EXCEPT ![k] = [Idle EXCEPT !.pc = "redirect",
                                                        !.text = action_text]]
    /\ UNCHANGED <<globals, sys_stdout, call, ret, results, trace, ops>>

\* execute: `stdout_buffer = StringIO()` ... `sys.stdout = stdout_buffer`
ConcRedirect(k) ==
    /\ threads[k].pc = "redirect"
    /\ sys_stdout' = k
    /\ threads' = [threads EXCEPT ![k].pc = "exec", ![k].buf = <<>>]
    /\ UNCHANGED <<envs, globals, call, ret, results, trace, ops>>

\* execute: `exec(code, self.globals, self.globals)`; print writes to the
\* object sys.stdout names at this moment
ConcExec(k) ==
    /\ threads[k].pc = "exec"
    /\ LET args == extract_tool_call(threads[k].text).args
           inst == tool_map(envs[k])["python"].inst
           out == python_output(globals[inst], args.code)
           failed == python_raises(globals[inst], args.code)
           written == [threads EXCEPT ![k].pc = "collect", ![k].error = failed]
       IN  /\ globals' = [globals EXCEPT ![inst] = python_execute(@, args).globals]
           /\ threads' = IF sys_stdout = 0 THEN written
                          ELSE [written EXCEPT ![sys_stdout].buf = @ \o out]
    /\ UNCHANGED <<envs, sys_stdout, call, ret, results, trace, ops>>

\* execute: the result is built from `stdout_buffer.getvalue()`
ConcCollect(k) ==
    /\ threads[k].pc = "collect"
    /\ threads' = [threads EXCEPT
            ![k].pc = "restore",
            ![k].result = IF threads[k].error
                          THEN <<"error", "name 'x' is not defined",
                                 "traceback", "NameError",
                                 "stdout", threads[k].buf, "stderr", "">>
                          ELSE <<"stdout", threads[k].buf, "stderr", "">>]
    /\ UNCHANGED <<envs, globals, sys_stdout, call, ret, results, trace, ops>>

\* execute: `finally: sys.stdout = sys.__stdout__`
ConcRestore(k) ==
    /\ threads[k].pc = "restore"
    /\ sys_stdout' = 0
    /\ threads' = [threads EXCEPT ![k].pc = "return"]
    /\ UNCHANGED <<envs, globals, call, ret, results, trace, ops>>

\* step, after execute returned: reward, tool_history, tracking, return
ConcReturn(k) ==
    /\ threads[k].pc = "return"
    /\ LET action == extract_tool_call(threads[k].text)
           o == step_success(envs[k], globals, threads[k].text, action,
                             tool_map(envs[k])["python"], threads[k].result)
       IN  /\ envs' = put(envs, k, o.env)
           /\ threads' = [threads EXCEPT ![k].pc = "idle", ![k].ret = o.ret]
    /\ UNCHANGED <<globals, sys_stdout, call, ret, results, trace, ops>>

ConcNext ==
    \/ \E k \in DOMAIN threads, action_text \in ConcTexts : ConcBegin(k, action_text)
    \/ \E k \in DOMAIN threads : ConcRedirect(k)
    \/ \E k \in DOMAIN threads : ConcExec(k)
    \/ \E k \in DOMAIN threads : ConcCollect(k)
    \/ \E k \in DOMAIN threads : ConcRestore(k)
    \/ \E k \in DOMAIN threads : ConcReturn(k)

SpecConc == ConcInit /\ [][ConcNext]_vars

---------------------------------------------------------------------------
(* Properties of concurrent steps on distinct episodes *)

\* thread k has returned from a step call
thread_returned(k) == threads[k].pc = "idle" /\ threads[k].ret.exc = ""

\* C21: when step runs concurrently on distinct episodes that each own their
\* Python tool (the steps of one episode being serialized), every episode's
\* observation and reward are those of a serial execution of the same
\* calls: the stdout captured in an episode's result holds the output of
\* that episode's code and nothing else.
C21_ConcurrentAsSerial ==
    \A k \in DOMAIN threads :
        thread_returned(k) =>
            LET action == extract_tool_call(threads[k].text)
                g == python_globals(envs[k], globals)
                r == threads[k].ret
                serial == IF action.args.code = "print(x)" THEN python_execute(g, action.args)
                          ELSE [result |-> <<"stdout", "", "stderr", "">>]
                stdout_at == IF has_key(serial.result, "error") THEN 6 ELSE 2
            IN  /\ Len(r.observation) = Len(serial.result)
                /\ r.observation[stdout_at] =
                      IF serial.result[stdout_at] = "" THEN <<>>
                      ELSE <<serial.result[stdout_at]>>
                /\ r.reward = python_calculate_reward(action.args, serial.result)

---------------------------------------------------------------------------
(* Properties of extract_tool_call *)

\* extract_tool_call has been applied to the text
Extracted == call.op = "extract_tool_call"

\* the text has an opening delimiter with a closing delimiter after it
has_region(text) ==
    \E i, j \in DOMAIN text : i < j /\ text[i] = OpenTag /\ text[j] = CloseTag

\* the first opening delimiter, and the first closing delimiter after it
first_open(text) ==
    CHOOSE i \in DOMAIN text :
        text[i] = OpenTag /\ \A k \in 1..(i - 1) : text[k] # OpenTag

first_close(text) ==
    CHOOSE j \in DOMAIN text :
        /\ j > first_open(text) /\ text[j] = CloseTag
        /\ \A k \in (first_open(text) + 1)..(j - 1) : text[k] # CloseTag

\* the content of the first region, and the text after that region
first_region(text) == SubSeq(text, first_open(text) + 1, first_close(text) - 1)

after_first_region(text) == SubSeq(text, first_close(text) + 1, Len(text))

\* the content, whitespace around it apart, is one JSON document
decodes(content) ==
    \E i \in DOMAIN content :
        /\ content[i].t = "json" /\ content[i].kind # "deep"
        /\ \A k \in DOMAIN content \ {i} : content[k] = Ws

decoded(content) == content[CHOOSE i \in DOMAIN content : content[i].t = "json"]

\* the decoded value is an object with a 'name' field
has_name_field(data) == data.kind = "object" /\ "name" \in DOMAIN data.v

\* the content is a well-formed call
well_formed(content) == decodes(content) /\ has_name_field(decoded(content))

\* C22: extract_tool_call returns Invalid for every text without a
\* <tool_call>...</tool_call> region, for every region whose content does not
\* decode as JSON and for every decoded content without a 'name' field
\* (decoded values that are not objects included); it never raises.
C22_MalformedIsInvalid ==
    Extracted =>
        LET text == call.texts[1] IN
        /\ results[1].exc = ""
        /\ ~has_region(text) => results[1].action = INVALID_ACTION
        /\ has_region(text) /\ ~decodes(first_region(text))
              => results[1].action = INVALID_ACTION
        /\ has_region(text) /\ decodes(first_region(text))
              /\ ~has_name_field(decoded(first_region(text)))
              => results[1].action = INVALID_ACTION

\* a decoded value that is not an object and makes the body raise: Invalid
C22_Witness ==
    /\ Extracted
    /\ call.texts[1] = Region(<<JsonNumber>>)
    /\ results[1] = Parsed(INVALID_ACTION)

\* C23: for every well-formed block whose decoded object has a 'name' field,
\* extract_tool_call returns a Call with that name, whose args is the decoded
\* 'arguments' value when present and the empty mapping when it is omitted.
C23_WellFormedIsCall ==
    Extracted /\ has_region(call.texts[1]) /\ well_formed(first_region(call.texts[1])) =>
        LET data == decoded(first_region(call.texts[1])).v IN
        /\ results[1].exc = ""
        /\ results[1].action.tool = data.name
        /\ "arguments" \in DOMAIN data => results[1].action.args = data.arguments
        /\ "arguments" \notin DOMAIN data => results[1].action.args = EmptyArgs

\* a block without 'arguments' gave a Call with the empty mapping
C23_Witness ==
    /\ Extracted
    /\ call.texts[1] = <<Junk>> \o Region(<<NameOnly>>)
    /\ results[1].action = [tool |-> "python", args |-> EmptyArgs]

\* the text has a region after its first region
several_regions(text) == has_region(text) /\ has_region(after_first_region(text))

\* C24: when the text has several tool-call regions, extract_tool_call
\* decides on the first region only: a malformed first region gives Invalid
\* even when a later region is well-formed, and after a well-formed first
\* region the later regions are ignored.
C24_FirstRegionDecides ==
    Extracted /\ several_regions(call.texts[1]) =>
        LET text == call.texts[1] IN
        /\ ~well_formed(first_region(text)) => results[1].action = INVALID_ACTION
        /\ well_formed(first_region(text))
              => results[1] = extract_outcome(Region(first_region(text)))
                 /\ results[1].action # INVALID_ACTION

\* a malformed region followed by a well-formed one gave Invalid
C24_Witness ==
    /\ Extracted
    /\ call.texts[1] = Region(<<Junk>>) \o Region(<<GoodCall>>)
    /\ results[1].action = INVALID_ACTION

---------------------------------------------------------------------------
(* Properties of faults *)

\* C26: step never raises: for every input text and every tool behaviour a
\* syntax fault, a semantic fault or a runtime fault is returned as a scored
\* (observation, reward, done, info) tuple, and the episode state after it
\* still has its tracking sequences as long as steps_taken.
C26_StepNeverRaises ==
    call.op = "step" =>
        /\ ret.exc = ""
        /\ tracking_aligned(envs[call.envs[1]])

\* the step transition executes the Python tool
python_executed ==
    /\ call'.op = "step"
    /\ resolution(envs[call'.envs[1]], call'.texts[1]) = "execute"
    /\ extract_tool_call(call'.texts[1]).tool = "python"

\* C28: PythonTool.execute never raises past its own boundary: for every
\* argument mapping and every code string, code that faults or requests
\* interpreter exit included, it returns a structured result and restores
\* the process output streams before returning.
C28_ExecuteNeverRaises ==
    [][python_executed =>
         /\ python_execute(python_globals(envs[call'.envs[1]], globals),
                           extract_tool_call(call'.texts[1]).args).kind = "return"
         /\ ret'.exc = ""
         /\ sys_stdout' = 0]_vars

---------------------------------------------------------------------------
(* Persistence of the context of a Python tool *)

\* the instance the step transition executes code on, 0 when it executes none
executing_instance ==
    IF call'.op = "step"
       /\ resolution(envs[call'.envs[1]], call'.texts[1]) = "execute"
       /\ extract_tool_call(call'.texts[1]).tool = "python"
    THEN tool_map(envs[call'.envs[1]])["python"].inst
    ELSE 0

\* the code the step transition executes
executed_code == strip_code(extract_tool_call(call'.texts[1]).args.code)

\* C27: within one PythonTool instance a name bound by the code of one
\* successful execute call is visible with the same value to the code of
\* every later execute call on that instance, until a later call rebinds
\* it; execute calls on other instances never change it.
C27_ContextPersists ==
    [][\E inst \in {executing_instance} :
       \E code \in {IF inst = 0 THEN "" ELSE executed_code} :
       \A k \in DOMAIN globals :
          /\ \A n \in DOMAIN globals[k] :
                \/ n \in DOMAIN globals'[k] /\ globals'[k][n] = globals[k][n]
                \/ inst = k /\ code \in AssignCodes /\ n = "x"
          /\ inst = k /\ code \in AssignCodes =>
                /\ ret'.info.action_is_effective
                /\ "x" \in DOMAIN globals'[k]
                /\ globals'[k].x = assigned_value(code)
          /\ inst = k /\ code = "print(x)" /\ "x" \in DOMAIN globals[k] =>
                ret'.observation = <<"stdout", printed(globals[k].x), "stderr", "">>
      ]_vars

\* the clone read back the value its own code bound two steps of other
\* episodes earlier, while the origin holds another value
C27_Witness ==
    /\ Len(envs) = 2
    /\ call.op = "step" /\ call.envs = <<2>>
    /\ call.texts = <<CallText("python", [code |-> "print(x)"])>>
    /\ globals = <<[x |-> 42], [x |-> 100]>>
    /\ envs[1].steps_taken = 2
    /\ ret.observation = <<"stdout", "100\n", "stderr", "">>

---------------------------------------------------------------------------
(* Properties of PythonTool.calculate_reward; rewards in thousandths *)

Rewarded == call.op = "calculate_reward"

\* the result text decodes as JSON
decodable(result) == result # Undecodable

\* the decoded result is an object
is_object(result) == Len(result) % 2 = 0

\* 0.3 + min(0.1, 0.001 * n), and 0.3 when the code does not parse
complexity_reward(n) == IF n = 0 THEN 300 ELSE 300 + Min(100, n)

\* the reward is non-decreasing in the number of nodes, constant from 100
\* nodes on, and at most 0.4
bounded_and_saturating ==
    /\ results[1] <= 400
    /\ call.nodes >= 1 => results[1] <= reward_for(call.result, call.nodes + 1)
    /\ call.nodes >= 100 => results[1] = reward_for(call.result, 100)

---------------------------------------------------------------------------
(* Properties of _default_tools *)

\* the instances of the list did not exist before the call and are distinct
newly_created(tools, heap) ==
    /\ \A i \in DOMAIN tools : tools[i].inst \notin DOMAIN heap
    /\ \A i, j \in DOMAIN tools : i # j => tools[i].inst # tools[j].inst

\* C30: _default_tools given a list of known tool names returns one newly
\* created instance per name, in the order of the list, so that two calls
\* never return the same instance; given 'python' it returns exactly one
\* PythonTool; given 'all' exactly one instance of each of the 4 registered
\* tools; given an unrecognised string it raises NotImplementedError.
C30_DefaultTools ==
    [][call'.op = "_default_tools" =>
         LET env == call'.texts[1] IN
         /\ env.kind = "list" /\ Range(env.names) \subseteq tool_names =>
               /\ ret'.exc = "none"
               /\ Len(results') = Len(env.names)
               /\ \A i \in DOMAIN results' : results'[i].cls = class_of(env.names[i])
               /\ newly_created(results', globals)
         /\ env.kind = "str" /\ env.value = "python" =>
               /\ ret'.exc = "none"
               /\ Len(results') = 1
               /\ results'[1].cls = "PythonTool"
               /\ newly_created(results', globals)
         /\ env.kind = "str" /\ env.value = "all" =>
               /\ ret'.exc = "none"
               /\ Len(results') = 4
               /\ \A name \in tool_names :
                     Cardinality({i \in DOMAIN results' : results'[i].cls = class_of(name)}) = 1
               /\ newly_created(results', globals)
         /\ env.kind = "str" /\ env.value \notin tool_names \cup {"all", "none"} =>
               ret'.exc = "NotImplementedError"
      ]_vars

\* a second call with the same list of names returned two other instances
C30_Witness ==
    /\ call.op = "_default_tools"
    /\ call.texts = <<NameList(<<"python", "calculator">>)>>
    /\ Len(globals) = 4
    /\ results = <<instantiate("PythonTool", 3), instantiate("CalculatorTool", 4)>>

---------------------------------------------------------------------------
(* Properties of the turn budget *)

\* C31: for an episode with max_turns = M, failed turns consume the turn
\* budget without ending the episode: every failed turn is counted and
\* returns done = false (when it returns), a successful transition returns
\* done = true exactly when its attempt number is >= M, and under a stream
\* of texts in which successful calls keep occurring done = true is
\* eventually returned.
C31_DoneEventually ==
    /\ [][call'.op = "step" =>
            /\ envs'[1].steps_taken = envs[1].steps_taken + 1
            /\ ~Succeeded(ret') => ~ret'.done
            /\ Succeeded(ret') =>
                  (ret'.done <=> envs[1].steps_taken + 1 >= envs[1].max_turns)]_vars
    /\ <>(ret.done)

\* a failed first turn used up one of two turns: the first successful call,
\* the second attempt, returned done
C31_Witness ==
    /\ envs[1].max_turns = 2
    /\ envs[1].steps_taken = 2
    /\ Len(envs[1].actions_effective) = 2
    /\ envs[1].actions_effective[1] = None
    /\ Succeeded(ret)
    /\ ret.done

---------------------------------------------------------------------------
(* tool_history over step, step_batch and copy *)

\* s is a prefix of t
is_prefix(s, t) == Len(s) <= Len(t) /\ SubSeq(t, 1, Len(s)) = s

\* the record at the end of the history is the one of the call decoded
\* from action_text
records_call(history, action_text) ==
    LET action == extract_tool_call(action_text)
        last == history[Len(history)]
    IN  last.tool = action.tool /\ last.args = action.args

\* C32: tool_history is append-only and chronological: over every step,
\* step_batch and copy, the history of each episode before the transition
\* is a prefix of its history after it, at most one record is added, and an
\* added record is the one of the call the transition executed for that
\* episode (so records stand in the order of their calls).
C32_HistoryAppendOnly ==
    [][\A e \in DOMAIN envs :
          /\ is_prefix(envs[e].tool_history, envs'[e].tool_history)
          /\ Len(envs'[e].tool_history) <= Len(envs[e].tool_history) + 1
          /\ Len(envs'[e].tool_history) = Len(envs[e].tool_history) + 1 =>
                \E i \in DOMAIN call'.texts :
                    /\ call'.envs[i] = e
                    /\ records_call(envs'[e].tool_history, call'.texts[i])]_vars

\* an episode whose second and third calls were recorded behind the first,
\* in the order they were made
C32_Witness ==
    /\ call.op = "step_batch"
    /\ Len(envs[1].tool_history) = 3
    /\ envs[1].tool_history[1].tool = "python"
    /\ envs[1].tool_history[2].tool = "calculator"
    /\ envs[1].tool_history[3].tool = "python"
    /\ envs[1].tool_history[1].args # envs[1].tool_history[3].args

---------------------------------------------------------------------------
(* done and reward of a batched index *)

\* C33: in step_batch, done and reward of each batched index are computed
\* per episode: for every index i that passed the first pass and got its
\* slot filled, done is (steps_taken of envs[i] after its own increment) >=
\* (max_turns of envs[i]), and reward is calculate_reward(args_i, result_i)
\* on the result returned for that index.
C33_BatchDonePerEpisode ==
    [][ (call'.op = "step_batch" /\ ret'.exc = "none") =>
          \A i \in DOMAIN envs :
             (passing(envs, call'.texts, i) /\ results'[i] # None) =>
                LET action == extract_tool_call(call'.texts[i])
                    tool == tool_map(envs[i])[action.tool]
                IN  /\ envs'[i].steps_taken = envs[i].steps_taken + 1
                    /\ results'[i].done
                          <=> (envs[i].steps_taken + 1 >= envs[i].max_turns)
                    /\ results'[i].reward =
                          calculate_reward(tool, action.args, results'[i].observation)
                    /\ envs'[i].rewards[Len(envs'[i].rewards)] = results'[i].reward
      ]_vars

\* two episodes of the same tool group, at different step counts, got
\* different done flags in one round, and different rewards for their
\* different results
C33_Witness ==
    /\ BatchReturned
    /\ Len(envs) >= 2
    /\ call.texts[1] = CallText("python", [code |-> "x = 100"])
    /\ call.texts[2] = CallText("python", [code |-> "print(x)"])
    /\ envs[1].steps_taken # envs[2].steps_taken
    /\ results[1].done # results[2].done
    /\ results[1].reward # results[2].reward

---------------------------------------------------------------------------
(* The tool name "invalid" *)

\* the outcome of a call of the unregistered tool "invalid"
UnknownInvalid ==
    Returned(<<"Unknown tool: ", "invalid">>, PENALTY_FOR_INEFFECTIVE, FALSE, TRUE, FALSE)

\* C34: a well-formed tool-call block whose name is "invalid" and whose
\* arguments are empty or omitted is processed like any other unregistered
\* tool name: step and step_batch answer 'Unknown tool: invalid' with
\* PENALTY_FOR_INEFFECTIVE and info {valid: true, effective: false}, not the
\* syntax-fault outcome.
C34_InvalidNameIsUnknownTool ==
    [][ /\ (call'.op = "step" /\ call'.texts[1] \in InvalidNameTexts) =>
              ret' = UnknownInvalid
        /\ (call'.op = "step_batch" /\ ret'.exc = "none") =>
              \A i \in DOMAIN call'.texts :
                 call'.texts[i] \in InvalidNameTexts => results'[i] = UnknownInvalid
      ]_vars

---------------------------------------------------------------------------
(* Effective means executed without raising *)

\* the code of the call is empty after strip(), or it raises in the context g
code_faults(g, args) == strip_code(args.code) = "" \/ python_raises(g, args.code)

\* C35: 'effective' means 'executed without raising': a Python tool call
\* whose code faults (or is empty) makes execute return an error-shaped
\* result without raising, so step reports info {valid: true, effective:
\* true}, appends the record to tool_history, and the reward is the tool's
\* own reward for an error result (0.05), not PENALTY_FOR_INEFFECTIVE.
C35_FaultingCodeIsEffective ==
    [][ (call'.op = "step" /\ resolution(envs[1], call'.texts[1]) = "execute") =>
          LET action == extract_tool_call(call'.texts[1])
              tool == tool_map(envs[1])[action.tool]
          IN  (tool.cls = "PythonTool"
                  /\ code_faults(globals[tool.inst], action.args)) =>
                 /\ ret'.exc = ""
                 /\ has_key(ret'.observation, "error")
                 /\ ret'.info = [action_is_valid |-> TRUE, action_is_effective |-> TRUE]
                 /\ ret'.reward = 50
                 /\ ret'.reward # PENALTY_FOR_INEFFECTIVE
                 /\ envs'[1].tool_history =
                       Append(envs[1].tool_history,
                              [tool |-> "python", args |-> action.args,
                               result |-> ret'.observation])
                 /\ envs'[1].rewards = Append(envs[1].rewards, 50)
                 /\ envs'[1].actions_effective =
                       Append(envs[1].actions_effective, action)
      ]_vars

\* an empty code, then a code raising NameError, were both recorded as
\* effective calls with reward 0.05, next to a calculator call that raised
C35_Witness ==
    /\ call.op = "step"
    /\ Len(envs[1].tool_history) = 2
    /\ envs[1].tool_history[1].result = <<"error", "No code provided">>
    /\ has_key(envs[1].tool_history[2].result, "traceback")
    /\ envs[1].rewards = <<50, 50, PENALTY_FOR_INEFFECTIVE>>
    /\ envs[1].actions_effective[3] = None
    /\ envs[1].actions_effective[2] # None

---------------------------------------------------------------------------
(* tool_history against _actions_effective *)

\* the non-null entries of _actions_effective, in order
effective_actions(env) == SelectSeq(env.actions_effective, LAMBDA a : a # None)

\* C36: in every reachable episode state, len(tool_history) equals the
\* number of non-null entries of _actions_effective, and the k-th history
\* record has the tool name and arguments of the k-th non-null effective
\* action (after step, after step_batch and for a fresh clone).
C36_HistoryMatchesEffective ==
    \A e \in DOMAIN envs :
       /\ Len(envs[e].tool_history) = Len(effective_actions(envs[e]))
       /\ \A k \in DOMAIN envs[e].tool_history :
             /\ envs[e].tool_history[k].tool = effective_actions(envs[e])[k].tool
             /\ envs[e].tool_history[k].args = effective_actions(envs[e])[k].args

\* a fresh clone of an episode with one recorded call between two failed
\* attempts
C36_Witness ==
    /\ call.op = "copy"
    /\ Len(envs) = 2
    /\ Len(envs[2].tool_history) = 1
    /\ Len(envs[2].actions_effective) = 2
    /\ envs[2].actions_effective[1] = None
    /\ envs[2].actions_effective[2] # None

\* a step_batch round left an episode with two records and a failed attempt
\* between them
C36_WitnessBatch ==
    /\ call.op = "step_batch"
    /\ Len(envs[1].tool_history) = 2
    /\ Len(envs[1].actions_effective) = 3
    /\ envs[1].actions_effective[2] = None

---------------------------------------------------------------------------
(* Transitions after termination *)

\* the last operation was a successful transition of episode e
succeeded_on(e) ==
    /\ e \in DOMAIN envs
    /\ \/ call.op = "step" /\ call.envs[1] = e /\ Succeeded(ret)
       \/ /\ BatchReturned
          /\ results[e] # None
          /\ results[e].info.action_is_effective

\* the last operation was a successful transition of episode e that
\* returned done = true
returned_done(e) ==
    /\ succeeded_on(e)
    /\ IF call.op = "step" THEN ret.done ELSE results[e].done

\* the episode has used up its turns
terminated(env) == env.steps_taken >= env.max_turns

\* the tool call of action_text, resolved on env, returns from execute
executes_normally(env, h, action_text) ==
    LET action == extract_tool_call(action_text)
    IN  execute(tool_map(env)[action.tool], h, action.args).kind = "return"

\* C37: an episode does not lock after termination: step and step_batch
\* process a call on an episode that has used up its turns as on any other
\* (a call that resolves to a tool and executes normally is a success and
\* is recorded), steps_taken grows by one per attempt, also beyond
\* max_turns, and done is monotone over successful transitions: once a
\* successful transition of an episode returned done = true, every later
\* successful transition of that episode returns done = true.
C37_NoLockAfterDone ==
    /\ [][ /\ call'.op = "step" =>
                LET e == call'.envs[1]
                IN  /\ envs'[e].steps_taken = envs[e].steps_taken + 1
                    /\ (/\ terminated(envs[e])
                        /\ resolution(envs[e], call'.texts[1]) = "execute"
                        /\ executes_normally(envs[e], globals, call'.texts[1])) =>
                           /\ Succeeded(ret')
                           /\ ret'.done
                           /\ Len(envs'[e].tool_history) = Len(envs[e].tool_history) + 1
           /\ (call'.op = "step_batch" /\ ret'.exc = "none") =>
                \A i \in DOMAIN envs :
                   results'[i] # None =>
                      /\ envs'[i].steps_taken = envs[i].steps_taken + 1
                      /\ (terminated(envs[i]) /\ passing(envs, call'.texts, i)) =>
                            /\ results'[i].info.action_is_effective
                            /\ results'[i].done
                            /\ Len(envs'[i].tool_history) = Len(envs[i].tool_history) + 1
         ]_vars
    /\ \A e \in 1..MaxEnvs :
          [](returned_done(e) => [](succeeded_on(e) => returned_done(e)))

\* an episode with max_turns = 1 took three attempts: a success that
\* returned done, a failure, and a success in a step_batch round that
\* returned done again
C37_Witness ==
    /\ envs[1].max_turns = 1
    /\ envs[1].steps_taken = 3
    /\ Len(envs[1].tool_history) = 2
    /\ Len(envs[1].actions_effective) = 3
    /\ envs[1].actions_effective[2] = None
    /\ returned_done(1)
    /\ call.op = "step_batch"

---------------------------------------------------------------------------
(* step_batch when a batch_execute raises *)

\* the position of the group of tool name n in the second pass: tool_groups
\* is filled in index order, so groups run in the order of their first index
group_position(es, action_texts, n) == group_indices(es, action_texts, n)[1]

\* the group whose batch_execute raises first
first_faulting(es, h, action_texts) ==
    CHOOSE n \in faulting_groups(es, h, action_texts) :
        \A m \in faulting_groups(es, h, action_texts) :
            group_position(es, action_texts, n) <= group_position(es, action_texts, m)

\* the episode recorded one transition: the attempt is counted and each
\* tracking sequence has one entry more
transition_recorded(before, after) ==
    /\ after.steps_taken = before.steps_taken + 1
    /\ Len(after.actions) = Len(before.actions) + 1
    /\ Len(after.actions_valid) = Len(before.actions_valid) + 1
    /\ Len(after.actions_effective) = Len(before.actions_effective) + 1
    /\ Len(after.rewards) = Len(before.rewards) + 1

\* what a round in which some batch_execute raises leaves behind
fault_leaves_partial_round(es, h, action_texts, after) ==
    LET n == first_faulting(es, h, action_texts)
        at == group_position(es, action_texts, n)
    IN  \A i \in DOMAIN es :
           IF ~passing(es, action_texts, i)
           THEN \* resolved in the first pass
                /\ transition_recorded(es[i], after[i])
                /\ after[i].tool_history = es[i].tool_history
           ELSE LET m == extract_tool_call(action_texts[i]).tool
                IN  IF group_position(es, action_texts, m) < at
                    THEN \* of a group processed earlier
                         /\ transition_recorded(es[i], after[i])
                         /\ Len(after[i].tool_history) = Len(es[i].tool_history) + 1
                    ELSE \* of the faulting group or of a later one
                         after[i] = es[i]

\* C38: step_batch is not atomic under a batch-level fault: when
\* batch_execute of some tool group raises, every episode resolved in the
\* first pass (Invalid, unknown tool, invalid arguments) and every episode
\* of a tool group processed earlier has already recorded its transition
\* (steps_taken, tracking sequences, history), while the episodes of the
\* faulting group and of later groups are left exactly as before the call.
C38_BatchFaultNotAtomic ==
    [][ (/\ call'.op = "step_batch"
         /\ Len(call'.texts) = Len(envs)
         /\ faulting_groups(envs, globals, call'.texts) # {}) =>
          /\ ret'.exc \notin {"", "none"}
          /\ fault_leaves_partial_round(envs, globals, call'.texts, envs')
      ]_vars

\* the same for the rounds in which every batch_execute that returns gives
\* one result per argument mapping
BatchFaultNotAtomicUnderContract ==
    [][ (/\ call'.op = "step_batch"
         /\ Len(call'.texts) = Len(envs)
         /\ faulting_groups(envs, globals, call'.texts) # {}
         /\ contract_kept(envs, globals, call'.texts)) =>
          /\ ret'.exc \notin {"", "none"}
          /\ fault_leaves_partial_round(envs, globals, call'.texts, envs')
      ]_vars

\* a round that raised after a python group was recorded and an unknown
\* tool was resolved, with the calculator group left as it was
PartialRound ==
    /\ RoundCalled
    /\ ret.exc = "Exception"
    /\ Len(envs) = 3
    /\ call.texts[1] = CallText("python", [code |-> "x = 100"])
    /\ call.texts[2] = CallText("calculator", [expression |-> "boom"])
    /\ call.texts[3] = CallText("foo", EmptyArgs)
    /\ envs[1].steps_taken = 1 /\ Len(envs[1].tool_history) = 1
    /\ envs[2].steps_taken = 0
    /\ envs[3].steps_taken = 1 /\ Len(envs[3].tool_history) = 0

---------------------------------------------------------------------------
(* The context of a clone's PythonTool *)

\* C39: the fresh stateful tool given to a clone starts from the tool's
\* initial execution context, not from a copy of the source's context: a
\* name the source episode defined before copy() is not defined in the
\* clone's tool, even though the clone's copied tool_history contains the
\* record of the call that defined it.
C39_CloneStartsFromInitialContext ==
    [][ call'.op = "copy" =>
          LET source == call'.envs[1]
              clone == Len(envs')
          IN  /\ clone = Len(envs) + 1
              /\ python_globals(envs'[clone], globals') = InitGlobals
              /\ envs'[clone].tool_history = envs[source].tool_history
              /\ python_globals(envs'[source], globals') =
                    python_globals(envs[source], globals)
              /\ "x" \in DOMAIN python_globals(envs[source], globals) =>
                    /\ "x" \notin DOMAIN python_globals(envs'[clone], globals')
                    /\ \E k \in DOMAIN envs'[clone].tool_history :
                          /\ envs'[clone].tool_history[k].tool = "python"
                          /\ envs'[clone].tool_history[k].args.code \in AssignCodes
      ]_vars

\* the source assigned x = 42 and was copied; the clone, whose history
\* holds the record of that assignment, printed x and got the NameError
\* result
C39_Witness ==
    /\ Len(envs) >= 2
    /\ python_globals(envs[1], globals) = [x |-> 42]
    /\ call = [op |-> "step", envs |-> <<2>>,
               texts |-> <<CallText("python", [code |-> "print(x)"])>>]
    /\ Len(envs[2].tool_history) = 2
    /\ envs[2].tool_history[1].args = [code |-> "x = 42"]
    /\ has_key(ret.observation, "error")
    /\ python_globals(envs[2], globals) = InitGlobals

---------------------------------------------------------------------------
(* calculate_reward raising in step *)

\* C40: in step, a fault raised by the tool's calculate_reward after
\* execute returned normally is handled as a runtime fault: the outcome is
\* PENALTY_FOR_INEFFECTIVE with info {valid: true, effective: false} and no
\* record is appended to tool_history, although the tool's execution has
\* already happened and any change it made to a stateful tool's context
\* persists.
C40_RewardFaultIsRuntimeFault ==
    [][ (call'.op = "step" /\ resolution(envs[1], call'.texts[1]) = "execute") =>
          LET action_text == call'.texts[1]
              action == extract_tool_call(action_text)
              tool == tool_map(envs[1])[action.tool]
              x == execute(tool, globals, action.args)
          IN  (x.kind = "return" /\ reward_raises(tool, action.args, x.result)) =>
                 /\ ret' = Returned(<<"Error executing tool '", action.tool, "': ">>
                                       \o RewardFault,
                                    PENALTY_FOR_INEFFECTIVE, FALSE, TRUE, FALSE)
                 /\ envs'[1].tool_history = envs[1].tool_history
                 /\ one_entry_appended(envs[1], envs'[1], action_text, action, None,
                                       PENALTY_FOR_INEFFECTIVE)
                 /\ \E k \in invocations(trace', "execute") :
                       trace'[k].args = <<action.args>>
                 /\ action.args.code \in AssignCodes =>
                       /\ "x" \in DOMAIN python_globals(envs'[1], globals')
                       /\ python_globals(envs'[1], globals').x =
                             assigned_value(action.args.code)
      ]_vars

\* the assignment x = 100 was executed over x = 42 and its reward
\* calculation raised: the step is scored as a runtime fault, the history
\* is empty, and x is 100 in the tool's context
C40_Witness ==
    /\ call = [op |-> "step", envs |-> <<1>>,
               texts |-> <<CallText("python", [code |-> "x = 100"])>>]
    /\ ret.reward = PENALTY_FOR_INEFFECTIVE
    /\ ret.info = [action_is_valid |-> TRUE, action_is_effective |-> FALSE]
    /\ envs[1].steps_taken = 2
    /\ envs[1].tool_history = <<>>
    /\ envs[1].actions_effective = <<None, None>>
    /\ python_globals(envs[1], globals) = [x |-> 100]

====
